---- MODULE Spec2Model ----
(***************************************************************************)
(* Contract Playbook Builder: the chunk / merge / progress logic of        *)
(* utils/playbook_generator.py and the job table of app.py.                *)
(*                                                                         *)
(* Four specifications share this module:                                  *)
(*   SpecPlan     the Chunk Planner on a text with contents                *)
(*   SpecParse    analyze_contract's decoding of one model reply           *)
(*   SpecAnalyze  one call of analyze_contract_chunked (calls, progress,   *)
(*                merge), the text abstracted to its length                *)
(*   Spec         the job table: upload_file and concurrent process_file   *)
(*                executions                                               *)
(* Strings that the code lower-cases are sequences of code points, so     *)
(* that lower() is computed and not assumed.                               *)
(***************************************************************************)
EXTENDS Integers, Sequences, FiniteSets, TLC

VARIABLES
    \* SpecPlan
    contract_text,      \* the extracted text, a sequence of characters
    p_size,             \* the chunk size the planner runs with
    p_segments,         \* the texts handed to analyze_contract, in order
    p_pc,
    \* SpecParse
    result_text,        \* response.choices[0].message.content, as tokens
    r_out,              \* what analyze_contract did with it
    r_pc,
    \* SpecAnalyze
    a_pc,
    text_len,           \* len(contract_text)
    a_size,             \* chunk_size
    chunks,             \* the planned chunks, each as its [lo, hi) range
    a_idx,              \* idx of the for loop, 0-based
    all_clauses,
    all_definitions,
    agreement_summary,
    negotiation_strategy,
    a_result,           \* the value analyze_contract_chunked returned
    a_emitted,          \* percents passed to progress_callback, in order
    a_calls,            \* analyze_contract calls made, in order
    a_replies,          \* what each call returned or raised, in order
    \* Spec
    processing_status,  \* app.py's job table
    uploads,            \* the uploaded file of each job, in UPLOAD_FOLDER
    OPENAI_API_KEY,     \* whether config.OPENAI_API_KEY is set
    thr                 \* the request threads running process_file

planVars  == <<contract_text, p_size, p_segments, p_pc>>
parseVars == <<result_text, r_out, r_pc>>
anVars    == <<a_pc, text_len, a_size, chunks, a_idx, all_clauses, all_definitions,
               agreement_summary, negotiation_strategy, a_result, a_emitted,
               a_calls, a_replies>>
jobVars   == <<processing_status, uploads, OPENAI_API_KEY, thr>>
vars      == <<planVars, parseVars, anVars, jobVars>>

---------------------------------------------------------------------------
(* Bounds of the model *)

\* longest text whose contents SpecPlan enumerates
MaxLen == 4
\* largest chunk size SpecPlan runs the planner with
MaxSize == 4
\* longest model reply, in tokens, SpecParse enumerates
MaxReply == 4
\* most chunks a document of SpecAnalyze is planned into
MaxChunks == 2
\* most chunks a document of a job of SpecServe is planned into
MaxJobChunks == 2
\* most chunks a document of a job of Spec is planned into
MaxPairChunks == 1
\* longest clause or definition list in one model reply
MaxItems == 2
\* the longest run of clauses in the clause lists handed to the merger
MaxRun == 16

(* Program constants *)

\* chunk_size of analyze_contract_chunked
chunk_size == 15000
\* max_chars of analyze_contract
max_chars == 100000

---------------------------------------------------------------------------
(* Python helpers *)

Min(a, b) == IF a <= b THEN a ELSE b

\* s[lo:hi] for 0 <= lo, on a sequence (0-based, hi exclusive, hi clamped)
Slice(s, lo, hi) == SubSeq(s, lo + 1, Min(hi, Len(s)))

\* s[:n]
Take(s, n) == SubSeq(s, 1, Min(n, Len(s)))

\* list(range(start, stop, step)) for step > 0
RECURSIVE Range(_, _, _)
Range(start, stop, step) ==
    IF start >= stop THEN <<>>
    ELSE <<start>> \o Range(start + step, stop, step)

\* A string the code lower-cases is the sequence of the code points of its
\* characters (ord() of each), so that every character of a Python str can
\* be written, and the two-character lower case of U+0130 too.

\* the single-character mappings of str.lower() (CPython 3.11, Unicode
\* 14.0): a run <<lo, hi, step, delta>> moves each of the code points lo,
\* lo + step, .., hi by delta; no other code point changes, but U+0130
LowerRuns ==
  <<
    <<65, 90, 1, 32>>, <<192, 214, 1, 32>>, <<216, 222, 1, 32>>, <<256, 302, 2, 1>>,
    <<306, 310, 2, 1>>, <<313, 327, 2, 1>>, <<330, 374, 2, 1>>, <<376, 376, 1, -121>>,
    <<377, 381, 2, 1>>, <<385, 385, 1, 210>>, <<386, 388, 2, 1>>, <<390, 390, 1, 206>>,
    <<391, 391, 1, 1>>, <<393, 394, 1, 205>>, <<395, 395, 1, 1>>, <<398, 398, 1, 79>>,
    <<399, 399, 1, 202>>, <<400, 400, 1, 203>>, <<401, 401, 1, 1>>, <<403, 403, 1, 205>>,
    <<404, 404, 1, 207>>, <<406, 406, 1, 211>>, <<407, 407, 1, 209>>, <<408, 408, 1, 1>>,
    <<412, 412, 1, 211>>, <<413, 413, 1, 213>>, <<415, 415, 1, 214>>, <<416, 420, 2, 1>>,
    <<422, 422, 1, 218>>, <<423, 423, 1, 1>>, <<425, 425, 1, 218>>, <<428, 428, 1, 1>>,
    <<430, 430, 1, 218>>, <<431, 431, 1, 1>>, <<433, 434, 1, 217>>, <<435, 437, 2, 1>>,
    <<439, 439, 1, 219>>, <<440, 440, 1, 1>>, <<444, 444, 1, 1>>, <<452, 452, 1, 2>>,
    <<453, 453, 1, 1>>, <<455, 455, 1, 2>>, <<456, 456, 1, 1>>, <<458, 458, 1, 2>>,
    <<459, 475, 2, 1>>, <<478, 494, 2, 1>>, <<497, 497, 1, 2>>, <<498, 500, 2, 1>>,
    <<502, 502, 1, -97>>, <<503, 503, 1, -56>>, <<504, 542, 2, 1>>, <<544, 544, 1, -130>>,
    <<546, 562, 2, 1>>, <<570, 570, 1, 10795>>, <<571, 571, 1, 1>>, <<573, 573, 1, -163>>,
    <<574, 574, 1, 10792>>, <<577, 577, 1, 1>>, <<579, 579, 1, -195>>, <<580, 580, 1, 69>>,
    <<581, 581, 1, 71>>, <<582, 590, 2, 1>>, <<880, 882, 2, 1>>, <<886, 886, 1, 1>>,
    <<895, 895, 1, 116>>, <<902, 902, 1, 38>>, <<904, 906, 1, 37>>, <<908, 908, 1, 64>>,
    <<910, 911, 1, 63>>, <<913, 929, 1, 32>>, <<931, 939, 1, 32>>, <<975, 975, 1, 8>>,
    <<984, 1006, 2, 1>>, <<1012, 1012, 1, -60>>, <<1015, 1015, 1, 1>>, <<1017, 1017, 1, -7>>,
    <<1018, 1018, 1, 1>>, <<1021, 1023, 1, -130>>, <<1024, 1039, 1, 80>>, <<1040, 1071, 1, 32>>,
    <<1120, 1152, 2, 1>>, <<1162, 1214, 2, 1>>, <<1216, 1216, 1, 15>>, <<1217, 1229, 2, 1>>,
    <<1232, 1326, 2, 1>>, <<1329, 1366, 1, 48>>, <<4256, 4293, 1, 7264>>, <<4295, 4295, 1, 7264>>,
    <<4301, 4301, 1, 7264>>, <<5024, 5103, 1, 38864>>, <<5104, 5109, 1, 8>>, <<7312, 7354, 1, -3008>>,
    <<7357, 7359, 1, -3008>>, <<7680, 7828, 2, 1>>, <<7838, 7838, 1, -7615>>, <<7840, 7934, 2, 1>>,
    <<7944, 7951, 1, -8>>, <<7960, 7965, 1, -8>>, <<7976, 7983, 1, -8>>, <<7992, 7999, 1, -8>>,
    <<8008, 8013, 1, -8>>, <<8025, 8031, 2, -8>>, <<8040, 8047, 1, -8>>, <<8072, 8079, 1, -8>>,
    <<8088, 8095, 1, -8>>, <<8104, 8111, 1, -8>>, <<8120, 8121, 1, -8>>, <<8122, 8123, 1, -74>>,
    <<8124, 8124, 1, -9>>, <<8136, 8139, 1, -86>>, <<8140, 8140, 1, -9>>, <<8152, 8153, 1, -8>>,
    <<8154, 8155, 1, -100>>, <<8168, 8169, 1, -8>>, <<8170, 8171, 1, -112>>, <<8172, 8172, 1, -7>>,
    <<8184, 8185, 1, -128>>, <<8186, 8187, 1, -126>>, <<8188, 8188, 1, -9>>, <<8486, 8486, 1, -7517>>,
    <<8490, 8490, 1, -8383>>, <<8491, 8491, 1, -8262>>, <<8498, 8498, 1, 28>>, <<8544, 8559, 1, 16>>,
    <<8579, 8579, 1, 1>>, <<9398, 9423, 1, 26>>, <<11264, 11311, 1, 48>>, <<11360, 11360, 1, 1>>,
    <<11362, 11362, 1, -10743>>, <<11363, 11363, 1, -3814>>, <<11364, 11364, 1, -10727>>, <<11367, 11371, 2, 1>>,
    <<11373, 11373, 1, -10780>>, <<11374, 11374, 1, -10749>>, <<11375, 11375, 1, -10783>>, <<11376, 11376, 1, -10782>>,
    <<11378, 11378, 1, 1>>, <<11381, 11381, 1, 1>>, <<11390, 11391, 1, -10815>>, <<11392, 11490, 2, 1>>,
    <<11499, 11501, 2, 1>>, <<11506, 11506, 1, 1>>, <<42560, 42604, 2, 1>>, <<42624, 42650, 2, 1>>,
    <<42786, 42798, 2, 1>>, <<42802, 42862, 2, 1>>, <<42873, 42875, 2, 1>>, <<42877, 42877, 1, -35332>>,
    <<42878, 42886, 2, 1>>, <<42891, 42891, 1, 1>>, <<42893, 42893, 1, -42280>>, <<42896, 42898, 2, 1>>,
    <<42902, 42920, 2, 1>>, <<42922, 42922, 1, -42308>>, <<42923, 42923, 1, -42319>>, <<42924, 42924, 1, -42315>>,
    <<42925, 42925, 1, -42305>>, <<42926, 42926, 1, -42308>>, <<42928, 42928, 1, -42258>>, <<42929, 42929, 1, -42282>>,
    <<42930, 42930, 1, -42261>>, <<42931, 42931, 1, 928>>, <<42932, 42946, 2, 1>>, <<42948, 42948, 1, -48>>,
    <<42949, 42949, 1, -42307>>, <<42950, 42950, 1, -35384>>, <<42951, 42953, 2, 1>>, <<42960, 42960, 1, 1>>,
    <<42966, 42968, 2, 1>>, <<42997, 42997, 1, 1>>, <<65313, 65338, 1, 32>>, <<66560, 66599, 1, 40>>,
    <<66736, 66771, 1, 40>>, <<66928, 66938, 1, 39>>, <<66940, 66954, 1, 39>>, <<66956, 66962, 1, 39>>,
    <<66964, 66965, 1, 39>>, <<68736, 68786, 1, 64>>, <<71840, 71871, 1, 32>>, <<93760, 93791, 1, 32>>,
    <<125184, 125217, 1, 34>>
  >>

\* the case-ignorable code points (Unicode Case_Ignorable), as <<lo, hi>>
CaseIgnorableRuns ==
  <<
    <<39, 39>>, <<46, 46>>, <<58, 58>>, <<94, 94>>, <<96, 96>>,
    <<168, 168>>, <<173, 173>>, <<175, 175>>, <<180, 180>>, <<183, 184>>,
    <<688, 879>>, <<884, 885>>, <<890, 890>>, <<900, 901>>, <<903, 903>>,
    <<1155, 1161>>, <<1369, 1369>>, <<1375, 1375>>, <<1425, 1469>>, <<1471, 1471>>,
    <<1473, 1474>>, <<1476, 1477>>, <<1479, 1479>>, <<1524, 1524>>, <<1536, 1541>>,
    <<1552, 1562>>, <<1564, 1564>>, <<1600, 1600>>, <<1611, 1631>>, <<1648, 1648>>,
    <<1750, 1757>>, <<1759, 1768>>, <<1770, 1773>>, <<1807, 1807>>, <<1809, 1809>>,
    <<1840, 1866>>, <<1958, 1968>>, <<2027, 2037>>, <<2042, 2042>>, <<2045, 2045>>,
    <<2070, 2093>>, <<2137, 2139>>, <<2184, 2184>>, <<2192, 2193>>, <<2200, 2207>>,
    <<2249, 2306>>, <<2362, 2362>>, <<2364, 2364>>, <<2369, 2376>>, <<2381, 2381>>,
    <<2385, 2391>>, <<2402, 2403>>, <<2417, 2417>>, <<2433, 2433>>, <<2492, 2492>>,
    <<2497, 2500>>, <<2509, 2509>>, <<2530, 2531>>, <<2558, 2558>>, <<2561, 2562>>,
    <<2620, 2620>>, <<2625, 2626>>, <<2631, 2632>>, <<2635, 2637>>, <<2641, 2641>>,
    <<2672, 2673>>, <<2677, 2677>>, <<2689, 2690>>, <<2748, 2748>>, <<2753, 2757>>,
    <<2759, 2760>>, <<2765, 2765>>, <<2786, 2787>>, <<2810, 2815>>, <<2817, 2817>>,
    <<2876, 2876>>, <<2879, 2879>>, <<2881, 2884>>, <<2893, 2893>>, <<2901, 2902>>,
    <<2914, 2915>>, <<2946, 2946>>, <<3008, 3008>>, <<3021, 3021>>, <<3072, 3072>>,
    <<3076, 3076>>, <<3132, 3132>>, <<3134, 3136>>, <<3142, 3144>>, <<3146, 3149>>,
    <<3157, 3158>>, <<3170, 3171>>, <<3201, 3201>>, <<3260, 3260>>, <<3263, 3263>>,
    <<3270, 3270>>, <<3276, 3277>>, <<3298, 3299>>, <<3328, 3329>>, <<3387, 3388>>,
    <<3393, 3396>>, <<3405, 3405>>, <<3426, 3427>>, <<3457, 3457>>, <<3530, 3530>>,
    <<3538, 3540>>, <<3542, 3542>>, <<3633, 3633>>, <<3636, 3642>>, <<3654, 3662>>,
    <<3761, 3761>>, <<3764, 3772>>, <<3782, 3782>>, <<3784, 3789>>, <<3864, 3865>>,
    <<3893, 3893>>, <<3895, 3895>>, <<3897, 3897>>, <<3953, 3966>>, <<3968, 3972>>,
    <<3974, 3975>>, <<3981, 3991>>, <<3993, 4028>>, <<4038, 4038>>, <<4141, 4144>>,
    <<4146, 4151>>, <<4153, 4154>>, <<4157, 4158>>, <<4184, 4185>>, <<4190, 4192>>,
    <<4209, 4212>>, <<4226, 4226>>, <<4229, 4230>>, <<4237, 4237>>, <<4253, 4253>>,
    <<4348, 4348>>, <<4957, 4959>>, <<5906, 5908>>, <<5938, 5939>>, <<5970, 5971>>,
    <<6002, 6003>>, <<6068, 6069>>, <<6071, 6077>>, <<6086, 6086>>, <<6089, 6099>>,
    <<6103, 6103>>, <<6109, 6109>>, <<6155, 6159>>, <<6211, 6211>>, <<6277, 6278>>,
    <<6313, 6313>>, <<6432, 6434>>, <<6439, 6440>>, <<6450, 6450>>, <<6457, 6459>>,
    <<6679, 6680>>, <<6683, 6683>>, <<6742, 6742>>, <<6744, 6750>>, <<6752, 6752>>,
    <<6754, 6754>>, <<6757, 6764>>, <<6771, 6780>>, <<6783, 6783>>, <<6823, 6823>>,
    <<6832, 6862>>, <<6912, 6915>>, <<6964, 6964>>, <<6966, 6970>>, <<6972, 6972>>,
    <<6978, 6978>>, <<7019, 7027>>, <<7040, 7041>>, <<7074, 7077>>, <<7080, 7081>>,
    <<7083, 7085>>, <<7142, 7142>>, <<7144, 7145>>, <<7149, 7149>>, <<7151, 7153>>,
    <<7212, 7219>>, <<7222, 7223>>, <<7288, 7293>>, <<7376, 7378>>, <<7380, 7392>>,
    <<7394, 7400>>, <<7405, 7405>>, <<7412, 7412>>, <<7416, 7417>>, <<7468, 7530>>,
    <<7544, 7544>>, <<7579, 7679>>, <<8125, 8125>>, <<8127, 8129>>, <<8141, 8143>>,
    <<8157, 8159>>, <<8173, 8175>>, <<8189, 8190>>, <<8203, 8207>>, <<8216, 8217>>,
    <<8228, 8228>>, <<8231, 8231>>, <<8234, 8238>>, <<8288, 8292>>, <<8294, 8303>>,
    <<8305, 8305>>, <<8319, 8319>>, <<8336, 8348>>, <<8400, 8432>>, <<11388, 11389>>,
    <<11503, 11505>>, <<11631, 11631>>, <<11647, 11647>>, <<11744, 11775>>, <<11823, 11823>>,
    <<12293, 12293>>, <<12330, 12333>>, <<12337, 12341>>, <<12347, 12347>>, <<12441, 12446>>,
    <<12540, 12542>>, <<40981, 40981>>, <<42232, 42237>>, <<42508, 42508>>, <<42607, 42610>>,
    <<42612, 42621>>, <<42623, 42623>>, <<42652, 42655>>, <<42736, 42737>>, <<42752, 42785>>,
    <<42864, 42864>>, <<42888, 42890>>, <<42994, 42996>>, <<43000, 43001>>, <<43010, 43010>>,
    <<43014, 43014>>, <<43019, 43019>>, <<43045, 43046>>, <<43052, 43052>>, <<43204, 43205>>,
    <<43232, 43249>>, <<43263, 43263>>, <<43302, 43309>>, <<43335, 43345>>, <<43392, 43394>>,
    <<43443, 43443>>, <<43446, 43449>>, <<43452, 43453>>, <<43471, 43471>>, <<43493, 43494>>,
    <<43561, 43566>>, <<43569, 43570>>, <<43573, 43574>>, <<43587, 43587>>, <<43596, 43596>>,
    <<43632, 43632>>, <<43644, 43644>>, <<43696, 43696>>, <<43698, 43700>>, <<43703, 43704>>,
    <<43710, 43711>>, <<43713, 43713>>, <<43741, 43741>>, <<43756, 43757>>, <<43763, 43764>>,
    <<43766, 43766>>, <<43867, 43871>>, <<43881, 43883>>, <<44005, 44005>>, <<44008, 44008>>,
    <<44013, 44013>>, <<64286, 64286>>, <<64434, 64450>>, <<65024, 65039>>, <<65043, 65043>>,
    <<65056, 65071>>, <<65106, 65106>>, <<65109, 65109>>, <<65279, 65279>>, <<65287, 65287>>,
    <<65294, 65294>>, <<65306, 65306>>, <<65342, 65342>>, <<65344, 65344>>, <<65392, 65392>>,
    <<65438, 65439>>, <<65507, 65507>>, <<65529, 65531>>, <<66045, 66045>>, <<66272, 66272>>,
    <<66422, 66426>>, <<67456, 67461>>, <<67463, 67504>>, <<67506, 67514>>, <<68097, 68099>>,
    <<68101, 68102>>, <<68108, 68111>>, <<68152, 68154>>, <<68159, 68159>>, <<68325, 68326>>,
    <<68900, 68903>>, <<69291, 69292>>, <<69446, 69456>>, <<69506, 69509>>, <<69633, 69633>>,
    <<69688, 69702>>, <<69744, 69744>>, <<69747, 69748>>, <<69759, 69761>>, <<69811, 69814>>,
    <<69817, 69818>>, <<69821, 69821>>, <<69826, 69826>>, <<69837, 69837>>, <<69888, 69890>>,
    <<69927, 69931>>, <<69933, 69940>>, <<70003, 70003>>, <<70016, 70017>>, <<70070, 70078>>,
    <<70089, 70092>>, <<70095, 70095>>, <<70191, 70193>>, <<70196, 70196>>, <<70198, 70199>>,
    <<70206, 70206>>, <<70367, 70367>>, <<70371, 70378>>, <<70400, 70401>>, <<70459, 70460>>,
    <<70464, 70464>>, <<70502, 70508>>, <<70512, 70516>>, <<70712, 70719>>, <<70722, 70724>>,
    <<70726, 70726>>, <<70750, 70750>>, <<70835, 70840>>, <<70842, 70842>>, <<70847, 70848>>,
    <<70850, 70851>>, <<71090, 71093>>, <<71100, 71101>>, <<71103, 71104>>, <<71132, 71133>>,
    <<71219, 71226>>, <<71229, 71229>>, <<71231, 71232>>, <<71339, 71339>>, <<71341, 71341>>,
    <<71344, 71349>>, <<71351, 71351>>, <<71453, 71455>>, <<71458, 71461>>, <<71463, 71467>>,
    <<71727, 71735>>, <<71737, 71738>>, <<71995, 71996>>, <<71998, 71998>>, <<72003, 72003>>,
    <<72148, 72151>>, <<72154, 72155>>, <<72160, 72160>>, <<72193, 72202>>, <<72243, 72248>>,
    <<72251, 72254>>, <<72263, 72263>>, <<72273, 72278>>, <<72281, 72283>>, <<72330, 72342>>,
    <<72344, 72345>>, <<72752, 72758>>, <<72760, 72765>>, <<72767, 72767>>, <<72850, 72871>>,
    <<72874, 72880>>, <<72882, 72883>>, <<72885, 72886>>, <<73009, 73014>>, <<73018, 73018>>,
    <<73020, 73021>>, <<73023, 73029>>, <<73031, 73031>>, <<73104, 73105>>, <<73109, 73109>>,
    <<73111, 73111>>, <<73459, 73460>>, <<78896, 78904>>, <<92912, 92916>>, <<92976, 92982>>,
    <<92992, 92995>>, <<94031, 94031>>, <<94095, 94111>>, <<94176, 94177>>, <<94179, 94180>>,
    <<110576, 110579>>, <<110581, 110587>>, <<110589, 110590>>, <<113821, 113822>>, <<113824, 113827>>,
    <<118528, 118573>>, <<118576, 118598>>, <<119143, 119145>>, <<119155, 119170>>, <<119173, 119179>>,
    <<119210, 119213>>, <<119362, 119364>>, <<121344, 121398>>, <<121403, 121452>>, <<121461, 121461>>,
    <<121476, 121476>>, <<121499, 121503>>, <<121505, 121519>>, <<122880, 122886>>, <<122888, 122904>>,
    <<122907, 122913>>, <<122915, 122916>>, <<122918, 122922>>, <<123184, 123197>>, <<123566, 123566>>,
    <<123628, 123631>>, <<125136, 125142>>, <<125252, 125259>>, <<127995, 127999>>, <<917505, 917505>>,
    <<917536, 917631>>, <<917760, 917999>>
  >>

\* the cased code points that are not case-ignorable, as <<lo, hi>>
CasedRuns ==
  <<
    <<65, 90>>, <<97, 122>>, <<170, 170>>, <<181, 181>>, <<186, 186>>,
    <<192, 214>>, <<216, 246>>, <<248, 442>>, <<444, 447>>, <<452, 659>>,
    <<661, 687>>, <<880, 883>>, <<886, 887>>, <<891, 893>>, <<895, 895>>,
    <<902, 902>>, <<904, 906>>, <<908, 908>>, <<910, 929>>, <<931, 1013>>,
    <<1015, 1153>>, <<1162, 1327>>, <<1329, 1366>>, <<1376, 1416>>, <<4256, 4293>>,
    <<4295, 4295>>, <<4301, 4301>>, <<4304, 4346>>, <<4349, 4351>>, <<5024, 5109>>,
    <<5112, 5117>>, <<7296, 7304>>, <<7312, 7354>>, <<7357, 7359>>, <<7424, 7467>>,
    <<7531, 7543>>, <<7545, 7578>>, <<7680, 7957>>, <<7960, 7965>>, <<7968, 8005>>,
    <<8008, 8013>>, <<8016, 8023>>, <<8025, 8025>>, <<8027, 8027>>, <<8029, 8029>>,
    <<8031, 8061>>, <<8064, 8116>>, <<8118, 8124>>, <<8126, 8126>>, <<8130, 8132>>,
    <<8134, 8140>>, <<8144, 8147>>, <<8150, 8155>>, <<8160, 8172>>, <<8178, 8180>>,
    <<8182, 8188>>, <<8450, 8450>>, <<8455, 8455>>, <<8458, 8467>>, <<8469, 8469>>,
    <<8473, 8477>>, <<8484, 8484>>, <<8486, 8486>>, <<8488, 8488>>, <<8490, 8493>>,
    <<8495, 8500>>, <<8505, 8505>>, <<8508, 8511>>, <<8517, 8521>>, <<8526, 8526>>,
    <<8544, 8575>>, <<8579, 8580>>, <<9398, 9449>>, <<11264, 11387>>, <<11390, 11492>>,
    <<11499, 11502>>, <<11506, 11507>>, <<11520, 11557>>, <<11559, 11559>>, <<11565, 11565>>,
    <<42560, 42605>>, <<42624, 42651>>, <<42786, 42863>>, <<42865, 42887>>, <<42891, 42894>>,
    <<42896, 42954>>, <<42960, 42961>>, <<42963, 42963>>, <<42965, 42969>>, <<42997, 42998>>,
    <<43002, 43002>>, <<43824, 43866>>, <<43872, 43880>>, <<43888, 43967>>, <<64256, 64262>>,
    <<64275, 64279>>, <<65313, 65338>>, <<65345, 65370>>, <<66560, 66639>>, <<66736, 66771>>,
    <<66776, 66811>>, <<66928, 66938>>, <<66940, 66954>>, <<66956, 66962>>, <<66964, 66965>>,
    <<66967, 66977>>, <<66979, 66993>>, <<66995, 67001>>, <<67003, 67004>>, <<68736, 68786>>,
    <<68800, 68850>>, <<71840, 71903>>, <<93760, 93823>>, <<119808, 119892>>, <<119894, 119964>>,
    <<119966, 119967>>, <<119970, 119970>>, <<119973, 119974>>, <<119977, 119980>>, <<119982, 119993>>,
    <<119995, 119995>>, <<119997, 120003>>, <<120005, 120069>>, <<120071, 120074>>, <<120077, 120084>>,
    <<120086, 120092>>, <<120094, 120121>>, <<120123, 120126>>, <<120128, 120132>>, <<120134, 120134>>,
    <<120138, 120144>>, <<120146, 120485>>, <<120488, 120512>>, <<120514, 120538>>, <<120540, 120570>>,
    <<120572, 120596>>, <<120598, 120628>>, <<120630, 120654>>, <<120656, 120686>>, <<120688, 120712>>,
    <<120714, 120744>>, <<120746, 120770>>, <<120772, 120779>>, <<122624, 122633>>, <<122635, 122654>>,
    <<125184, 125251>>, <<127280, 127305>>, <<127312, 127337>>, <<127344, 127369>>
  >>

\* whether code point c lies in one of the runs <<lo, hi>>
InRuns(c, runs) == \E k \in 1..Len(runs) : runs[k][1] <= c /\ c <= runs[k][2]

\* the code points str.lower() maps to one other code point, each with its
\* image
ToLower ==
    LET points(r) == {r[1] + k * r[3] : k \in 0..((r[2] - r[1]) \div r[3])}
        run(c) == CHOOSE k \in 1..Len(LowerRuns) : c \in points(LowerRuns[k])
    IN  [c \in UNION {points(LowerRuns[k]) : k \in 1..Len(LowerRuns)} |->
            c + LowerRuns[run(c)][4]]
Lowered == DOMAIN ToLower

\* str.lower() on one character other than U+03A3: U+0130 becomes the two
\* characters U+0069 U+0307
LowerChar(c) ==
    IF c = 304 THEN <<105, 775>>
    ELSE IF c \in Lowered THEN <<ToLower[c]>>
    ELSE <<c>>

\* str.lower() on the capital sigma at position i of s: the final form
\* U+03C2 when the nearest character before it that is not case-ignorable
\* is cased and the nearest one after it, if any, is not; U+03C3 otherwise
handle_capital_sigma(s, i) ==
    LET before == {j \in 1..(i - 1) : ~InRuns(s[j], CaseIgnorableRuns)}
        after == {j \in (i + 1)..Len(s) : ~InRuns(s[j], CaseIgnorableRuns)}
        prev == CHOOSE j \in before : \A k \in before : k <= j
        next == CHOOSE j \in after : \A k \in after : j <= k
    IN  IF /\ before # {}
           /\ InRuns(s[prev], CasedRuns)
           /\ (after = {} \/ ~InRuns(s[next], CasedRuns))
        THEN 962
        ELSE 963

\* the lower case of the first n characters of s
RECURSIVE LowerPrefix(_, _)
LowerPrefix(s, n) ==
    IF n = 0 THEN <<>>
    ELSE LowerPrefix(s, n - 1)
         \o (IF s[n] = 931 THEN <<handle_capital_sigma(s, n)>> ELSE LowerChar(s[n]))

\* str.lower()
lower(s) == LowerPrefix(s, Len(s))

---------------------------------------------------------------------------
(* Chunk Planner: playbook_generator.py lines 291-305 *)

\* the ranges [i, i + chunk_size) of the for loop, hi clamped as slicing does
ChunkRangesDropTail(len, size) ==
    LET starts == Range(0, len - (len % size), size)
    IN  [k \in 1..Len(starts) |-> [lo |-> starts[k], hi |-> Min(starts[k] + size, len)]]
ChunkRanges(len, size) ==
    LET starts == Range(0, len, size)
    IN  [k \in 1..Len(starts) |-> [lo |-> starts[k], hi |-> Min(starts[k] + size, len)]]

\* chunks.append(contract_text[i:i + chunk_size]) for each i
ChunksDropTail(text, size) ==
    LET starts == Range(0, Len(text) - (Len(text) % size), size)
    IN  [k \in 1..Len(starts) |-> Slice(text, starts[k], starts[k] + size)]
Chunks(text, size) ==
    LET starts == Range(0, Len(text), size)
    IN  [k \in 1..Len(starts) |-> Slice(text, starts[k], starts[k] + size)]

\* the texts analyze_contract is called with: the whole text on the
\* single-call path, the chunks otherwise
Segments(text, size) ==
    IF Len(text) < size THEN <<text>> ELSE Chunks(text, size)

\* the same plan on a text known by its length only
SegmentRanges(len, size) ==
    IF len < size THEN <<[lo |-> 0, hi |-> len]>> ELSE ChunkRanges(len, size)

---------------------------------------------------------------------------
(* analyze_contract: decoding the model reply, lines 260-273 *)

\* the characters a reply of the model is made of here: braces, brackets
\* and a character that is no JSON
Tokens == {"{", "}", "[", "]", "x"}

ResultTexts == UNION {[1..n -> Tokens] : n \in 0..MaxReply}

\* json.loads(s) succeeds: over Tokens the JSON documents are {} and [],
\* each inside any number of one-element arrays
RECURSIVE IsJSON(_)
IsJSON(s) ==
    \/ s = <<"{", "}">>
    \/ s = <<"[", "]">>
    \/ /\ Len(s) >= 3
       /\ s[1] = "[" /\ s[Len(s)] = "]"
       /\ IsJSON(SubSeq(s, 2, Len(s) - 1))

\* type of json.loads(s) for a document s
LoadsType(s) == IF s[1] = "{" THEN "dict" ELSE "list"

\* the positions where re.search(r'\{[\s\S]*\}', s) can start a match: a
\* brace with a closing brace somewhere after it
MatchStarts(s) ==
    {i \in 1..Len(s) : s[i] = "{" /\ \E j \in (i + 1)..Len(s) : s[j] = "}"}

\* json_match.group(): the leftmost match, extended as far as it goes
ReSearchShortest(s) ==
    LET i == CHOOSE a \in MatchStarts(s) : \A b \in MatchStarts(s) : a <= b
        ends == {j \in (i + 1)..Len(s) : s[j] = "}"}
        j == CHOOSE a \in ends : \A b \in ends : a <= b
    IN  SubSeq(s, i, j)
ReSearch(s) ==
    LET i == CHOOSE a \in MatchStarts(s) : \A b \in MatchStarts(s) : a <= b
        ends == {j \in (i + 1)..Len(s) : s[j] = "}"}
        j == CHOOSE a \in ends : \A b \in ends : a >= b
    IN  SubSeq(s, i, j)

Returned(type, text) == [kind |-> "returned", type |-> type, parsed |-> text, error |-> ""]
Raised(error) == [kind |-> "raised", type |-> "", parsed |-> <<>>, error |-> error]
NoOutcome == [kind |-> "none", type |-> "", parsed |-> <<>>, error |-> ""]

\* lines 262-273: json.loads, then the regex fallback, then ValueError
DecodeReply(s) ==
    IF IsJSON(s) THEN Returned(LoadsType(s), s)
    ELSE IF MatchStarts(s) # {}
         THEN IF IsJSON(ReSearch(s))
              THEN Returned(LoadsType(ReSearch(s)), ReSearch(s))
              ELSE Raised("JSONDecodeError")
         ELSE Raised("ValueError")

---------------------------------------------------------------------------
(* SpecPlan and SpecParse *)

Alphabet == {"a", "b"}
Texts == UNION {[1..n -> Alphabet] : n \in 0..MaxLen}

PlanInit ==
    /\ contract_text \in Texts
    /\ p_size \in 1..MaxSize
    /\ p_segments = <<>>
    /\ p_pc = "start"

PlanIdle ==
    /\ contract_text = <<>>
    /\ p_size = 1
    /\ p_segments = <<>>
    /\ p_pc = "off"

\* lines 291-305 on contract_text
Plan ==
    /\ p_pc = "start"
    /\ p_segments' = Segments(contract_text, p_size)
    /\ p_pc' = "done"
    /\ UNCHANGED <<contract_text, p_size, parseVars, anVars, jobVars>>

ParseInit ==
    /\ result_text \in ResultTexts
    /\ r_out = NoOutcome
    /\ r_pc = "start"

ParseIdle ==
    /\ result_text = <<>>
    /\ r_out = NoOutcome
    /\ r_pc = "off"

\* lines 260-273 on result_text
Decode ==
    /\ r_pc = "start"
    /\ r_out' = DecodeReply(result_text)
    /\ r_pc' = "done"
    /\ UNCHANGED <<result_text, planVars, anVars, jobVars>>

---------------------------------------------------------------------------
(* The parsed reply of the model and the Playbook: Python dicts *)

Red    == <<82, 101, 100>>  \* "Red"
Yellow == <<89, 101, 108, 108, 111, 119>>  \* "Yellow"
Green  == <<71, 114, 101, 101, 110>>  \* "Green"
RedUpper  == <<82, 69, 68>>  \* "RED"

Clause(title, risk, section) ==
    [clause_title |-> title, risk_level |-> risk, section_reference |-> section]

\* the clauses the model's replies are cut from
ClausePool ==
    <<Clause("Liability", Red, "9.1"), Clause("Notices", Green, ""),
      Clause("Payment", Yellow, "4.2"), Clause("Indemnity", RedUpper, "10")>>

\* a definition entry; has_term is whether the dict has the key "term"
Definition(term, text) == [has_term |-> TRUE, term |-> term, definition |-> text]
Untermed(text) == [has_term |-> FALSE, term |-> <<>>, definition |-> text]

\* the definitions the model's replies are cut from
DefinitionPool ==
    <<Definition(<<70, 101, 101>>, "d1"), Definition(<<102, 101, 101>>, "d2"),  \* "Fee", "fee"
      Definition(<<84, 101, 114, 109>>, "d3"), Definition(<<70, 69, 69>>, "d4"),  \* "Term", "FEE"
      Untermed("d5"),
      Definition(<<931>>, "d6"), Definition(<<963>>, "d7")>>  \* U+03A3, U+03C3

\* the lists of at most MaxItems consecutive entries of a pool
Windows(pool) ==
    {SubSeq(pool, i, i + n - 1) :
        <<i, n>> \in {w \in (1..Len(pool)) \X (0..MaxItems) : w[1] + w[2] - 1 <= Len(pool)}}

PyNone == [py |-> "None", size |-> 0, title |-> "", critical_issues_count |-> 0]
EmptyDict == [py |-> "dict", size |-> 0, title |-> "", critical_issues_count |-> 0]
Summary(title, n) == [py |-> "dict", size |-> 9, title |-> title, critical_issues_count |-> n]

NoStrategy == [py |-> "None", size |-> 0, opening_position |-> "", walk_away_triggers |-> <<>>]
Strategy(opening, triggers) ==
    [py |-> "dict", size |-> 5, opening_position |-> opening, walk_away_triggers |-> triggers]

\* bool(x) of a dict or None
Truthy(x) == x.py = "dict" /\ x.size > 0

QuickReference(db, hp, st, cn, ro) ==
    [deal_breakers |-> db, high_priority_items |-> hp, standard_acceptable_terms |-> st,
     common_negotiation_points |-> cn, recommended_order_of_negotiation |-> ro]
EmptyQuickReference == QuickReference(<<>>, <<>>, <<>>, <<>>, <<>>)

\* the dict {} ; keys is the set of keys the dict has, the other fields
\* are read only for a key in keys
EmptyReply ==
    [keys |-> {}, agreement_summary |-> PyNone, clauses |-> <<>>, definitions |-> <<>>,
     quick_reference |-> EmptyQuickReference, negotiation_strategy |-> NoStrategy]

ClauseReplies ==
    {[EmptyReply EXCEPT !.keys = {"clauses"}, !.clauses = w] : w \in Windows(ClausePool)}
DefinitionReplies ==
    {[EmptyReply EXCEPT !.keys = {"definitions"}, !.definitions = w] :
        w \in Windows(DefinitionPool)}
SummaryReplies ==
    {[EmptyReply EXCEPT !.keys = {"agreement_summary"},
                        !.agreement_summary = Summary("MSA", 1)],
     [EmptyReply EXCEPT !.keys = {"agreement_summary", "negotiation_strategy"},
                        !.agreement_summary = Summary("NDA", 0),
                        !.negotiation_strategy = Strategy("firm", <<"cap">>)],
     [EmptyReply EXCEPT !.keys = {"agreement_summary"},
                        !.agreement_summary = EmptyDict]}
FullReplies ==
    {[keys |-> {"agreement_summary", "clauses", "definitions", "quick_reference",
                "negotiation_strategy"},
      agreement_summary |-> Summary("SaaS", 2),
      clauses |-> Take(ClausePool, MaxItems),
      definitions |-> Take(DefinitionPool, MaxItems),
      quick_reference |-> QuickReference(<<"Liability cap">>, <<>>, <<>>, <<>>, <<>>),
      negotiation_strategy |-> Strategy("open", <<>>)]}

\* the dicts analyze_contract returns in this model
Replies == {EmptyReply} \cup ClauseReplies \cup DefinitionReplies
           \cup SummaryReplies \cup FullReplies

---------------------------------------------------------------------------
(* Result Merger: analyze_contract_chunked lines 338-409 *)

\* all_clauses.extend(chunk_result["clauses"]) if the key is there
ExtendClausesFront(acc, r) == IF "clauses" \in r.keys THEN r.clauses \o acc ELSE acc
ExtendClauses(acc, r) == IF "clauses" \in r.keys THEN acc \o r.clauses ELSE acc

\* all_definitions.extend(chunk_result["definitions"]) if the key is there
ExtendDefinitions(acc, r) == IF "definitions" \in r.keys THEN acc \o r.definitions ELSE acc

\* lines 344-345 and 347-348: the first truthy value is kept
KeepLast(current, r, key, value) ==
    IF key \in r.keys THEN value ELSE current
KeepFirst(current, r, key, value) ==
    IF ~Truthy(current) /\ key \in r.keys THEN value ELSE current

\* defn.get("term", "").lower()
TermKeyExact(defn) == IF defn.has_term THEN defn.term ELSE <<>>
TermKey(defn) == IF defn.has_term THEN lower(defn.term) ELSE <<>>

\* lines 355-361: the loop over all_definitions from position i, with the
\* terms seen so far and the list built so far
RECURSIVE DedupFrom(_, _, _, _)
DedupFrom(defs, i, seen_terms, unique_definitions) ==
    IF i > Len(defs) THEN unique_definitions
    ELSE IF TermKey(defs[i]) \notin seen_terms
         THEN DedupFrom(defs, i + 1, seen_terms \cup {TermKey(defs[i])},
                        Append(unique_definitions, defs[i]))
         ELSE DedupFrom(defs, i + 1, seen_terms, unique_definitions)

UniqueDefinitions(defs) == DedupFrom(defs, 1, {}, <<>>)

\* clause.get("risk_level", "").lower()
Risk(clause) == lower(clause.risk_level)
RiskRed == <<114, 101, 100>>  \* "red"
RiskYellow == <<121, 101, 108, 108, 111, 119>>  \* "yellow"

\* f"{title} (Section {section})" if section else title
Item(clause) ==
    IF clause.section_reference # ""
    THEN clause.clause_title \o " (Section " \o clause.section_reference \o ")"
    ELSE clause.clause_title

\* lines 364-379: the three lists after the loop over all_clauses
RECURSIVE BucketNewestFirst(_, _)
BucketNewestFirst(clauses, which) ==
    IF clauses = <<>> THEN <<>>
    ELSE LET c == Head(clauses)
             b == IF Risk(c) = RiskRed THEN "deal_breakers"
                  ELSE IF Risk(c) = RiskYellow THEN "high_priority"
                  ELSE "standard_terms"
         IN  BucketNewestFirst(Tail(clauses), which)
                \o (IF b = which THEN <<Item(c)>> ELSE <<>>)
RECURSIVE Bucket(_, _)
Bucket(clauses, which) ==
    IF clauses = <<>> THEN <<>>
    ELSE LET c == Head(clauses)
             b == IF Risk(c) = RiskRed THEN "deal_breakers"
                  ELSE IF Risk(c) = RiskYellow THEN "high_priority"
                  ELSE "standard_terms"
         IN  (IF b = which THEN <<Item(c)>> ELSE <<>>) \o Bucket(Tail(clauses), which)

\* the sort key of line 400
RiskRank(clause) ==
    IF Risk(clause) = RiskRed THEN 0 ELSE IF Risk(clause) = RiskYellow THEN 1 ELSE 2

\* sorted(all_clauses, key=RiskRank): stable, by insertion after the
\* entries that do not rank higher
RECURSIVE InsertByRankUnstable(_, _)
InsertByRankUnstable(sorted, c) ==
    IF sorted = <<>> THEN <<c>>
    ELSE IF RiskRank(Head(sorted)) < RiskRank(c)
         THEN <<Head(sorted)>> \o InsertByRankUnstable(Tail(sorted), c)
         ELSE <<c>> \o sorted
RECURSIVE InsertByRank(_, _)
InsertByRank(sorted, c) ==
    IF sorted = <<>> THEN <<c>>
    ELSE IF RiskRank(Head(sorted)) <= RiskRank(c)
         THEN <<Head(sorted)>> \o InsertByRank(Tail(sorted), c)
         ELSE <<c>> \o sorted

RECURSIVE SortedByRisk(_)
SortedByRisk(clauses) ==
    IF clauses = <<>> THEN <<>>
    ELSE InsertByRank(SortedByRisk(SubSeq(clauses, 1, Len(clauses) - 1)),
                      clauses[Len(clauses)])

Titles(clauses) == [i \in 1..Len(clauses) |-> clauses[i].clause_title]

\* all_clauses[:10] filtered to red and yellow, line 399
NegotiationPoints(clauses) ==
    Titles(SelectSeq(Take(clauses, 10), LAMBDA c : Risk(c) \in {RiskRed, RiskYellow}))

\* lines 381-409
CombinedResult(clauses, defs, summary, strategy) ==
    LET deal_breakers == Bucket(clauses, "deal_breakers")
        high_priority == Bucket(clauses, "high_priority")
        standard_terms == Bucket(clauses, "standard_terms")
    IN  [keys |-> {"agreement_summary", "clauses", "definitions", "quick_reference",
                   "negotiation_strategy"},
         agreement_summary |->
            IF Truthy(summary) THEN summary
            ELSE Summary("Contract Analysis", Len(deal_breakers)),
         clauses |-> clauses,
         definitions |-> UniqueDefinitions(defs),
         quick_reference |->
            QuickReference(Take(deal_breakers, 15), Take(high_priority, 15),
                           Take(standard_terms, 15), NegotiationPoints(clauses),
                           Titles(Take(SortedByRisk(clauses), 10))),
         negotiation_strategy |->
            IF Truthy(strategy) THEN strategy
            ELSE Strategy("Start with highest-risk items to gauge counterparty flexibility",
                          IF deal_breakers # <<>> THEN Take(deal_breakers, 5)
                          ELSE <<"No critical deal breakers identified">>)]

---------------------------------------------------------------------------
(* Progress arithmetic *)

\* int((idx + 1) / len(chunks) * 80), line 326
ChunkProgress(idx, n) == ((idx + 1) * 80) \div n

\* 20 + int(p * 0.6), the lambda of app.py line 126
JobProgressUnscaled(p) == 20 + p
JobProgress(p) == 20 + ((p * 6) \div 10)

---------------------------------------------------------------------------
(* SpecAnalyze: one call of analyze_contract_chunked, lines 276-414 *)

\* len(contract_text) after lines 238-240 of analyze_contract: a text over
\* max_chars is cut to max_chars and a 39-character notice is appended
SentLenShortLimit(n) == IF n > 10000 THEN 10000 + 39 ELSE n
SentLen(n) == IF n > max_chars THEN max_chars + 39 ELSE n

\* the call analyze_contract(chunk, ...) for the text range r
Call(r) == [lo |-> r.lo, hi |-> r.hi, sent |-> SentLen(r.hi - r.lo),
            truncated |-> (r.hi - r.lo) > max_chars]

ReplyOk(r) == [ok |-> TRUE, reply |-> r]
ReplyRaised == [ok |-> FALSE, reply |-> EmptyReply]

\* the document lengths analysed: the empty text, a short one, and the
\* lengths around the multiples of chunk_size
AnalyzeInputs ==
    {0, 500, chunk_size - 1}
        \cup {k * chunk_size : k \in 1..MaxChunks}
        \cup {k * chunk_size + 1 : k \in 1..(MaxChunks - 1)}

AnalyzeInit ==
    /\ a_pc = "start"
    /\ text_len \in AnalyzeInputs
    /\ a_size = chunk_size
    /\ chunks = <<>>
    /\ a_idx = 0
    /\ all_clauses = <<>>
    /\ all_definitions = <<>>
    /\ agreement_summary = PyNone
    /\ negotiation_strategy = NoStrategy
    /\ a_result = EmptyReply
    /\ a_emitted = <<>>
    /\ a_calls = <<>>
    /\ a_replies = <<>>

AnalyzeIdle ==
    /\ a_pc = "off"
    /\ text_len = 0
    /\ a_size = chunk_size
    /\ chunks = <<>>
    /\ a_idx = 0
    /\ all_clauses = <<>>
    /\ all_definitions = <<>>
    /\ agreement_summary = PyNone
    /\ negotiation_strategy = NoStrategy
    /\ a_result = EmptyReply
    /\ a_emitted = <<>>
    /\ a_calls = <<>>
    /\ a_replies = <<>>

\* lines 294-297: the single-call path up to the call of analyze_contract
SingleCall ==
    /\ a_pc = "start"
    /\ text_len < a_size
    /\ a_emitted' = Append(a_emitted, 20)
    /\ a_calls' = Append(a_calls, Call([lo |-> 0, hi |-> text_len]))
    /\ a_pc' = "single"
    /\ UNCHANGED <<text_len, a_size, chunks, a_idx, all_clauses, all_definitions,
                   agreement_summary, negotiation_strategy, a_result, a_replies>>
    /\ UNCHANGED <<planVars, parseVars, jobVars>>

\* lines 297-300: analyze_contract returned; its result is returned as it is
SingleReturn ==
    /\ a_pc = "single"
    /\ \E r \in Replies :
        /\ a_replies' = Append(a_replies, ReplyOk(r))
        /\ a_result' = r
    /\ a_emitted' = Append(a_emitted, 100)
    /\ a_pc' = "returned"
    /\ UNCHANGED <<text_len, a_size, chunks, a_idx, all_clauses, all_definitions,
                   agreement_summary, negotiation_strategy, a_calls>>
    /\ UNCHANGED <<planVars, parseVars, jobVars>>

\* lines 303-322: the chunks are planned and the accumulators are empty
PlanChunks ==
    /\ a_pc = "start"
    /\ ~(text_len < a_size)
    /\ chunks' = ChunkRanges(text_len, a_size)
    /\ a_pc' = "loop"
    /\ UNCHANGED <<text_len, a_size, a_idx, all_clauses, all_definitions,
                   agreement_summary, negotiation_strategy, a_result, a_emitted,
                   a_calls, a_replies>>
    /\ UNCHANGED <<planVars, parseVars, jobVars>>

\* lines 324-336: the progress of chunk idx is reported, then the chunk is
\* handed to analyze_contract
ChunkCall ==
    /\ a_pc = "loop"
    /\ a_idx < Len(chunks)
    /\ a_emitted' = Append(a_emitted, ChunkProgress(a_idx, Len(chunks)))
    /\ a_calls' = Append(a_calls, Call(chunks[a_idx + 1]))
    /\ a_pc' = "wait"
    /\ UNCHANGED <<text_len, a_size, chunks, a_idx, all_clauses, all_definitions,
                   agreement_summary, negotiation_strategy, a_result, a_replies>>
    /\ UNCHANGED <<planVars, parseVars, jobVars>>

\* lines 338-348: the chunk's result is merged into the accumulators
ChunkReturn ==
    /\ a_pc = "wait"
    /\ \E r \in Replies :
        /\ a_replies' = Append(a_replies, ReplyOk(r))
        /\ all_clauses' = ExtendClauses(all_clauses, r)
        /\ all_definitions' = ExtendDefinitions(all_definitions, r)
        /\ agreement_summary' =
              KeepFirst(agreement_summary, r, "agreement_summary", r.agreement_summary)
        /\ negotiation_strategy' =
              KeepFirst(negotiation_strategy, r, "negotiation_strategy",
                        r.negotiation_strategy)
    /\ a_idx' = a_idx + 1
    /\ a_pc' = "loop"
    /\ UNCHANGED <<text_len, a_size, chunks, a_result, a_emitted, a_calls>>
    /\ UNCHANGED <<planVars, parseVars, jobVars>>

\* analyze_contract raised (the provider call failed, or the reply held no
\* JSON): nothing in analyze_contract_chunked catches it
CallRaisesRetry ==
    /\ a_pc \in {"single", "wait"}
    /\ a_replies' = Append(a_replies, ReplyRaised)
    /\ a_pc' = IF a_pc = "wait" THEN "loop" ELSE "raised"
    /\ UNCHANGED <<text_len, a_size, chunks, a_idx, all_clauses, all_definitions,
                   agreement_summary, negotiation_strategy, a_result, a_emitted,
                   a_calls>>
    /\ UNCHANGED <<planVars, parseVars, jobVars>>
CallRaises ==
    /\ a_pc \in {"single", "wait"}
    /\ a_replies' = Append(a_replies, ReplyRaised)
    /\ a_pc' = "raised"
    /\ UNCHANGED <<text_len, a_size, chunks, a_idx, all_clauses, all_definitions,
                   agreement_summary, negotiation_strategy, a_result, a_emitted,
                   a_calls>>
    /\ UNCHANGED <<planVars, parseVars, jobVars>>

\* lines 350-414: after the last chunk the results are combined and returned
Combine ==
    /\ a_pc = "loop"
    /\ a_idx = Len(chunks)
    /\ a_emitted' = a_emitted \o <<90, 100>>
    /\ a_result' = CombinedResult(all_clauses, all_definitions, agreement_summary,
                                  negotiation_strategy)
    /\ a_pc' = "returned"
    /\ UNCHANGED <<text_len, a_size, chunks, a_idx, all_clauses, all_definitions,
                   agreement_summary, negotiation_strategy, a_calls, a_replies>>
    /\ UNCHANGED <<planVars, parseVars, jobVars>>

\* SpecMerge: the clause lists merged, each a window of the pool, a run
\* alternating two neighbours of the pool and at most one more clause
MergeClauseLists ==
    LET n == Len(ClausePool)
        runs == {[i \in 1..k |-> IF i % 2 = 1 THEN ClausePool[c]
                                               ELSE ClausePool[(c % n) + 1]] :
                    <<k, c>> \in (0..MaxRun) \X (1..n)}
        tails == {<<>>} \cup {<<ClausePool[i]>> : i \in 1..n}
    IN  {h \o r \o t : <<h, r, t>> \in Windows(ClausePool) \X runs \X tails}

\* analyze_contract_chunked after the loop over a document of one chunk
\* whose reply held the clause list
MergeInit ==
    /\ a_pc = "loop"
    /\ text_len = chunk_size
    /\ a_size = chunk_size
    /\ chunks = ChunkRanges(chunk_size, chunk_size)
    /\ a_idx = 1
    /\ all_clauses \in MergeClauseLists
    /\ all_definitions = <<>>
    /\ agreement_summary = PyNone
    /\ negotiation_strategy = NoStrategy
    /\ a_result = EmptyReply
    /\ a_emitted = <<ChunkProgress(0, 1)>>
    /\ a_calls = <<Call([lo |-> 0, hi |-> chunk_size])>>
    /\ a_replies = <<ReplyOk([EmptyReply EXCEPT !.keys = {"clauses"},
                                                !.clauses = all_clauses])>>

NextAnalyze ==
    \/ SingleCall
    \/ SingleReturn
    \/ PlanChunks
    \/ ChunkCall
    \/ ChunkReturn
    \/ CallRaises
    \/ Combine

---------------------------------------------------------------------------
(* Spec: app.py, the job table and the requests that work on it *)

\* the job ids uuid4 hands out, and the server's request threads
Jobs == {"j1", "j2"}
Threads == {"t1", "t2"}

\* the rotating messages of lines 313-322
status_messages ==
    <<"Analyzing agreement structure...", "Reviewing contract provisions...",
      "Evaluating key terms...", "Generating negotiation guidance...",
      "Processing document sections...", "Identifying risk areas...",
      "Building playbook entries...", "Analyzing contractual obligations...">>

\* config.ALLOWED_EXTENSIONS
ALLOWED_EXTENSIONS == {<<112, 100, 102>>, <<100, 111, 99, 120>>, <<120, 108, 115, 120>>}  \* "pdf", "docx", "xlsx"

\* filename.rsplit(".", 1)[1]: what follows the last dot
AfterLastDot(filename) ==
    LET dots == {i \in 1..Len(filename) : filename[i] = 46}
        last == CHOOSE i \in dots : \A k \in dots : k <= i
    IN  SubSeq(filename, last + 1, Len(filename))

\* document_parser.allowed_file
allowed_file_any_dot(filename, allowed_extensions) ==
    \E i \in 1..Len(filename) : filename[i] = 46
allowed_file(filename, allowed_extensions) ==
    /\ \E i \in 1..Len(filename) : filename[i] = 46
    /\ lower(AfterLastDot(filename)) \in allowed_extensions

\* the uploads tried: no file part, an empty filename, and filenames
UploadRequests ==
    {[has_file |-> FALSE, filename |-> <<>>],
     [has_file |-> TRUE, filename |-> <<>>],
     [has_file |-> TRUE, filename |-> <<97, 46, 112, 100, 102>>],  \* "a.pdf"
     [has_file |-> TRUE, filename |-> <<97, 46, 80, 68, 70>>],  \* "a.PDF"
     [has_file |-> TRUE, filename |-> <<97, 46, 101, 120, 101>>],  \* "a.exe"
     [has_file |-> TRUE, filename |-> <<112, 100, 102>>]}  \* "pdf"

\* the PDF files uploaded: one the reader raises on, and readable ones
\* given by the length of the text of each page: a blank page, two blank
\* pages (a scan without a text layer), and pages of text
Documents ==
    {[readable |-> FALSE, pages |-> <<>>],
     [readable |-> TRUE, pages |-> <<0>>],
     [readable |-> TRUE, pages |-> <<0, 0>>],
     [readable |-> TRUE, pages |-> <<500>>],
     [readable |-> TRUE, pages |-> <<MaxJobChunks * chunk_size>>]}

\* parse_pdf: len("\n\n".join(full_text)) for the page texts
RECURSIVE parse_pdf(_)
parse_pdf(pages) ==
    IF pages = <<>> THEN 0
    ELSE IF Len(pages) = 1 THEN pages[1]
    ELSE pages[1] + 2 + parse_pdf(Tail(pages))

\* a job id without a saved file, and the file saved by line 63
NoFile == [exists |-> FALSE, readable |-> FALSE, pages |-> <<>>]
SavedFile(doc) == [exists |-> TRUE, readable |-> doc.readable, pages |-> doc.pages]

\* a key that is not in processing_status
NoJob ==
    [present |-> FALSE, status |-> "", progress |-> 0, message |-> "",
     output_path |-> "None", error |-> "None"]

\* lines 71-82
NewJob ==
    [present |-> TRUE, status |-> "processing", progress |-> 0,
     message |-> "Uploading file...", output_path |-> "None", error |-> "None"]

\* a thread that runs no request; route is the handler a thread runs,
\* code and body the response of the request it has handled, has_file and
\* filename the upload it got, status to download_url the payload of
\* get_status
Idle ==
    [pc |-> "idle", route |-> "", job |-> "", len |-> 0, n |-> 0, idx |-> 0, e |-> "",
     code |-> 0, body |-> "", has_file |-> FALSE, filename |-> <<>>,
     status |-> "", progress |-> 0, message |-> "", download_url |-> "None"]

\* a return jsonify(...), code of a handler
Response(route, code, body) ==
    [Idle EXCEPT !.pc = "return", !.route = route, !.code = code, !.body = body]

JobInit ==
    /\ processing_status = [j \in Jobs |-> NoJob]
    /\ uploads = [j \in Jobs |-> NoFile]
    /\ OPENAI_API_KEY \in BOOLEAN
    /\ thr = [t \in Threads |-> Idle]

JobIdle ==
    /\ processing_status = [j \in {} |-> NoJob]
    /\ uploads = [j \in {} |-> NoFile]
    /\ OPENAI_API_KEY = FALSE
    /\ thr = [t \in {} |-> Idle]

\* update_progress of lines 108-110
update_progress_all(table, job_id, progress, message) ==
    [k \in DOMAIN table |->
        IF table[k].present
        THEN [table[k] EXCEPT !.progress = progress, !.message = message]
        ELSE table[k]]
update_progress(table, job_id, progress, message) ==
    [table EXCEPT ![job_id].progress = progress, ![job_id].message = message]

\* no request is about to use the job id j: uuid4 of line 56 gives an id
\* that is in no entry and that no other upload holds
FreshId(j) ==
    /\ ~processing_status[j].present
    /\ \A u \in Threads : ~(thr[u].route = "upload" /\ thr[u].job = j)

\* upload_file, lines 37-56: a request, one of requests, that fails
\* validation is answered; one that passes gets a fresh job id, one of
\* jobs
Submit(t, jobs, requests) ==
    /\ thr[t].pc = "idle"
    /\ \E req \in requests :
        LET answer(code, body) ==
                [Response("upload", code, body) EXCEPT !.has_file = req.has_file,
                                             !.filename = req.filename]
        IN  IF ~req.has_file
            THEN thr' = [thr EXCEPT ![t] = answer(400, "No file provided")]
            ELSE IF req.filename = <<>>
            THEN thr' = [thr EXCEPT ![t] = answer(400, "No file selected")]
            ELSE IF ~allowed_file(req.filename, ALLOWED_EXTENSIONS)
            THEN thr' = [thr EXCEPT ![t] = answer(400, "File type not supported")]
            ELSE IF ~OPENAI_API_KEY
            THEN thr' = [thr EXCEPT ![t] = answer(500, "OpenAI API key not configured")]
            ELSE \E j \in jobs :
                    /\ FreshId(j)
                    /\ thr' = [thr EXCEPT ![t] =
                          [Idle EXCEPT !.pc = "save", !.route = "upload", !.job = j,
                                       !.has_file = req.has_file,
                                       !.filename = req.filename]]
    /\ UNCHANGED <<processing_status, uploads, OPENAI_API_KEY, planVars, parseVars, anVars>>

\* lines 58-63: file.save writes the file, one of documents, or raises;
\* nothing in upload_file catches it and the request is answered 500
\* without a job id
SaveFile(t, documents) ==
    /\ thr[t].pc = "save"
    /\ \/ /\ \E doc \in documents :
                uploads' = [uploads EXCEPT ![thr[t].job] = SavedFile(doc)]
          /\ thr' = [thr EXCEPT ![t].pc = "entry"]
       \/ /\ UNCHANGED uploads
          /\ thr' = [thr EXCEPT ![t] =
                [Response("upload", 500, "Internal Server Error") EXCEPT
                    !.has_file = thr[t].has_file, !.filename = thr[t].filename]]
    /\ UNCHANGED <<processing_status, OPENAI_API_KEY, planVars, parseVars, anVars>>

\* lines 66-87: the entry is made and the job id returned
MakeEntry(t) ==
    /\ thr[t].pc = "entry"
    /\ processing_status' = [processing_status EXCEPT ![thr[t].job] = NewJob]
    /\ thr' = [thr EXCEPT ![t] =
          [Response("upload", 200, "job_id") EXCEPT
              !.job = thr[t].job, !.has_file = thr[t].has_file,
              !.filename = thr[t].filename]]
    /\ UNCHANGED <<uploads, OPENAI_API_KEY, planVars, parseVars, anVars>>

upload_file(t, jobs, requests, documents) ==
    \/ Submit(t, jobs, requests)
    \/ SaveFile(t, documents)
    \/ MakeEntry(t)

\* process_file, lines 95-104: the request is answered at once for an
\* unknown or a finished job, and runs the pipeline otherwise
Trigger(t, j) ==
    /\ thr[t].pc = "idle"
    /\ thr' = [thr EXCEPT ![t] =
          IF ~processing_status[j].present THEN Response("process", 404, "Job not found")
          ELSE IF processing_status[j].status = "completed"
          THEN [Response("process", 200, "Already processed") EXCEPT !.job = j]
          ELSE IF processing_status[j].status = "error"
          THEN [Response("process", 200, "error") EXCEPT !.job = j,
                                              !.e = processing_status[j].error]
          ELSE [Idle EXCEPT !.route = "process", !.job = j, !.pc = "parse"]]
    /\ UNCHANGED <<processing_status, uploads, OPENAI_API_KEY, planVars, parseVars, anVars>>

\* line 113: progress 10
ReportParsing(t) ==
    /\ thr[t].pc = "parse"
    /\ processing_status' =
          update_progress(processing_status, thr[t].job, 10, "Parsing document...")
    /\ thr' = [thr EXCEPT ![t].pc = "parsing"]
    /\ UNCHANGED <<uploads, OPENAI_API_KEY, planVars, parseVars, anVars>>

\* line 114, parse_document up to its check os.path.exists
\* (document_parser.py lines 175-176): FileNotFoundError "File not found"
\* when the file is gone
CheckFile(t) ==
    /\ thr[t].pc = "parsing"
    /\ thr' = [thr EXCEPT ![t] =
          IF ~uploads[thr[t].job].exists
          THEN [@ EXCEPT !.pc = "except", !.e = "File not found"]
          ELSE [@ EXCEPT !.pc = "reading"]]
    /\ UNCHANGED <<processing_status, uploads, OPENAI_API_KEY, planVars, parseVars, anVars>>

\* lines 114-117, the rest of parse_document: the reader opens the file
\* (parse_pdf line 27), which has been removed since the check, or on which
\* the reader raises, or which holds no text, or whose text is returned
ParseDocument(t) ==
    /\ thr[t].pc = "reading"
    /\ LET file == uploads[thr[t].job]
       IN  thr' = [thr EXCEPT ![t] =
              IF ~file.exists
              THEN [@ EXCEPT !.pc = "except", !.e = "No such file or directory"]
              ELSE IF ~file.readable
              THEN [@ EXCEPT !.pc = "except", !.e = "parse_document raised"]
              ELSE IF parse_pdf(file.pages) = 0
              THEN [@ EXCEPT !.pc = "except", !.e = "Could not extract text"]
              ELSE [@ EXCEPT !.pc = "analyze", !.len = parse_pdf(file.pages)]]
    /\ UNCHANGED <<processing_status, uploads, OPENAI_API_KEY, planVars, parseVars, anVars>>

\* line 120: progress 20
StartAnalysis(t) ==
    /\ thr[t].pc = "analyze"
    /\ processing_status' =
          update_progress(processing_status, thr[t].job, 20,
                          "Analyzing contract with AI...")
    /\ thr' = [thr EXCEPT ![t].pc = "plan"]
    /\ UNCHANGED <<uploads, OPENAI_API_KEY, planVars, parseVars, anVars>>

\* analyze_contract_chunked lines 291-305: single call (with its first
\* progress report, lines 295-297) or the chunk plan
EnterAnalysis(t) ==
    /\ thr[t].pc = "plan"
    /\ IF thr[t].len < chunk_size
       THEN /\ processing_status' =
                  update_progress(processing_status, thr[t].job, JobProgress(20),
                                  "Analyzing contract with AI...")
            /\ thr' = [thr EXCEPT ![t].pc = "single", ![t].len = 0]
       ELSE /\ UNCHANGED processing_status
            /\ thr' = [thr EXCEPT ![t].pc = "loop", ![t].len = 0, ![t].idx = 0,
                                  ![t].n = Len(ChunkRanges(thr[t].len, chunk_size))]
    /\ UNCHANGED <<uploads, OPENAI_API_KEY, planVars, parseVars, anVars>>

\* lines 297-300: the single call returns and 100 is reported, or it raises
SingleDone(t) ==
    /\ thr[t].pc = "single"
    /\ \/ /\ processing_status' =
                update_progress(processing_status, thr[t].job, JobProgress(100),
                                "Analysis complete")
          /\ thr' = [thr EXCEPT ![t].pc = "render"]
       \/ /\ UNCHANGED processing_status
          /\ thr' = [thr EXCEPT ![t].pc = "except", ![t].e = "analyze_contract raised"]
    /\ UNCHANGED <<uploads, OPENAI_API_KEY, planVars, parseVars, anVars>>

\* lines 324-336: the progress of chunk idx, then its call
ChunkStartNoWait(t) ==
    /\ thr[t].pc = "loop"
    /\ thr[t].idx < thr[t].n
    /\ processing_status' =
          update_progress(processing_status, thr[t].job,
                          JobProgress(ChunkProgress(thr[t].idx, thr[t].n)),
                          status_messages[(thr[t].idx % Len(status_messages)) + 1])
    /\ thr' = [thr EXCEPT ![t].idx = thr[t].idx + 1]
    /\ UNCHANGED <<uploads, OPENAI_API_KEY, planVars, parseVars, anVars>>
ChunkStart(t) ==
    /\ thr[t].pc = "loop"
    /\ thr[t].idx < thr[t].n
    /\ processing_status' =
          update_progress(processing_status, thr[t].job,
                          JobProgress(ChunkProgress(thr[t].idx, thr[t].n)),
                          status_messages[(thr[t].idx % Len(status_messages)) + 1])
    /\ thr' = [thr EXCEPT ![t].pc = "wait"]
    /\ UNCHANGED <<uploads, OPENAI_API_KEY, planVars, parseVars, anVars>>

\* lines 331-348: the chunk's call returns and is merged, or it raises
ChunkDone(t) ==
    /\ thr[t].pc = "wait"
    /\ \/ thr' = [thr EXCEPT ![t].pc = "loop", ![t].idx = thr[t].idx + 1]
       \/ thr' = [thr EXCEPT ![t].pc = "except", ![t].e = "analyze_contract raised",
                             ![t].n = 0, ![t].idx = 0]
    /\ UNCHANGED <<processing_status, uploads, OPENAI_API_KEY, planVars, parseVars, anVars>>

\* lines 351-352: 90 is reported once the loop is over
CombineStart(t) ==
    /\ thr[t].pc = "loop"
    /\ thr[t].idx = thr[t].n
    /\ processing_status' =
          update_progress(processing_status, thr[t].job, JobProgress(90),
                          "Combining analysis...")
    /\ thr' = [thr EXCEPT ![t].pc = "combined", ![t].n = 0, ![t].idx = 0]
    /\ UNCHANGED <<uploads, OPENAI_API_KEY, planVars, parseVars, anVars>>

\* lines 354-414: the merge, then 100 is reported and the result returned;
\* or the merge raises on a reply whose clause or definition is not of the
\* expected shape (.lower() of a null risk_level, line 369)
CombineDone(t) ==
    /\ thr[t].pc = "combined"
    /\ \/ /\ processing_status' =
                update_progress(processing_status, thr[t].job, JobProgress(100),
                                "Analysis complete")
          /\ thr' = [thr EXCEPT ![t].pc = "render"]
       \/ /\ UNCHANGED processing_status
          /\ thr' = [thr EXCEPT ![t].pc = "except", ![t].e = "analyze_contract raised"]
    /\ UNCHANGED <<uploads, OPENAI_API_KEY, planVars, parseVars, anVars>>

\* lines 130-133: progress 85, then generate_playbook_excel returns or raises
Render(t) ==
    /\ thr[t].pc = "render"
    /\ processing_status' =
          update_progress(processing_status, thr[t].job, 85,
                          "Generating Excel playbook...")
    /\ \/ thr' = [thr EXCEPT ![t].pc = "complete"]
       \/ thr' = [thr EXCEPT ![t].pc = "except", ![t].e = "generate_playbook_excel raised"]
    /\ UNCHANGED <<uploads, OPENAI_API_KEY, planVars, parseVars, anVars>>

\* line 136
SetCompletedProgressOnly(table, job_id) ==
    [table EXCEPT ![job_id].progress = 100]
SetCompleted(table, job_id) ==
    [table EXCEPT ![job_id].status = "completed"]

\* lines 137-140
SetFinished(table, job_id) ==
    [table EXCEPT ![job_id].progress = 100,
                  ![job_id].message = "Playbook generated successfully!",
                  ![job_id].output_path = "Playbook.xlsx"]

MarkCompleted(t) ==
    /\ thr[t].pc = "complete"
    /\ processing_status' = SetCompleted(processing_status, thr[t].job)
    /\ thr' = [thr EXCEPT ![t].pc = "finish"]
    /\ UNCHANGED <<uploads, OPENAI_API_KEY, planVars, parseVars, anVars>>

\* lines 137-140: the rest of the entry
Finish(t) ==
    /\ thr[t].pc = "finish"
    /\ processing_status' = SetFinished(processing_status, thr[t].job)
    /\ thr' = [thr EXCEPT ![t].pc = "cleanup"]
    /\ UNCHANGED <<uploads, OPENAI_API_KEY, planVars, parseVars, anVars>>

\* lines 142-152: the uploaded file is removed, then the response
Cleanup(t) ==
    /\ thr[t].pc = "cleanup"
    /\ uploads' = [uploads EXCEPT ![thr[t].job].exists = FALSE]
    /\ thr' = [thr EXCEPT ![t] = [Response("process", 200, "completed") EXCEPT !.job = thr[t].job]]
    /\ UNCHANGED <<processing_status, OPENAI_API_KEY, planVars, parseVars, anVars>>

\* line 155
SetErrorStatus(table, job_id) ==
    [table EXCEPT ![job_id].status = "error"]

\* line 156
SetErrorKeepNone(table, job_id, e) == table
SetError(table, job_id, e) ==
    [table EXCEPT ![job_id].error = e]

\* line 157
SetErrorMessage(table, job_id, e) ==
    [table EXCEPT ![job_id].message = "Error: " \o e]

\* lines 154-155: the except clause sets the status
Except(t) ==
    /\ thr[t].pc = "except"
    /\ processing_status' = SetErrorStatus(processing_status, thr[t].job)
    /\ thr' = [thr EXCEPT ![t].pc = "except_error"]
    /\ UNCHANGED <<uploads, OPENAI_API_KEY, planVars, parseVars, anVars>>

\* line 156: then the error
ExceptError(t) ==
    /\ thr[t].pc = "except_error"
    /\ processing_status' = SetError(processing_status, thr[t].job, thr[t].e)
    /\ thr' = [thr EXCEPT ![t].pc = "except_message"]
    /\ UNCHANGED <<uploads, OPENAI_API_KEY, planVars, parseVars, anVars>>

\* lines 157-162: then the message, and the response
ExceptMessage(t) ==
    /\ thr[t].pc = "except_message"
    /\ processing_status' = SetErrorMessage(processing_status, thr[t].job, thr[t].e)
    /\ thr' = [thr EXCEPT ![t] =
                  [Response("process", 500, "error") EXCEPT !.job = thr[t].job, !.e = thr[t].e]]
    /\ UNCHANGED <<uploads, OPENAI_API_KEY, planVars, parseVars, anVars>>

\* the response is sent and the thread is free for the next request
Return(t) ==
    /\ thr[t].pc = "return"
    /\ thr' = [thr EXCEPT ![t] = Idle]
    /\ UNCHANGED <<processing_status, uploads, OPENAI_API_KEY, planVars, parseVars, anVars>>

\* the steps of process_file after the request was accepted, lines 106-162
Proceed(t) ==
    \/ ReportParsing(t)
    \/ CheckFile(t)
    \/ ParseDocument(t)
    \/ StartAnalysis(t)
    \/ EnterAnalysis(t)
    \/ SingleDone(t)
    \/ ChunkStart(t)
    \/ ChunkDone(t)
    \/ CombineStart(t)
    \/ CombineDone(t)
    \/ Render(t)
    \/ MarkCompleted(t)
    \/ Finish(t)
    \/ Cleanup(t)
    \/ Except(t)
    \/ ExceptError(t)
    \/ ExceptMessage(t)

process_file(t) ==
    \/ \E j \in Jobs : Trigger(t, j)
    \/ Proceed(t)

\* get_status, lines 166-175: 404 for an unknown id; else the status, the
\* progress and the message of the entry are read
get_status(t, j) ==
    /\ thr[t].pc = "idle"
    /\ thr' = [thr EXCEPT ![t] =
          IF ~processing_status[j].present THEN Response("status", 404, "Job not found")
          ELSE [Idle EXCEPT
                   !.pc = "status_error", !.route = "status", !.job = j,
                   !.status = processing_status[j].status,
                   !.progress = processing_status[j].progress,
                   !.message = processing_status[j].message]]
    /\ UNCHANGED <<processing_status, uploads, OPENAI_API_KEY, planVars, parseVars, anVars>>

\* line 176: job.get("error")
ReadError(t) ==
    /\ thr[t].pc = "status_error"
    /\ thr' = [thr EXCEPT ![t].pc = "status_url",
                          ![t].e = processing_status[thr[t].job].error]
    /\ UNCHANGED <<processing_status, uploads, OPENAI_API_KEY, planVars, parseVars, anVars>>

\* line 177: the status is read again for download_url, and the payload
\* is returned
OfferAlways(t) ==
    /\ thr[t].pc = "status_url"
    /\ thr' = [thr EXCEPT ![t].pc = "return", ![t].code = 200, ![t].body = "status",
                          ![t].download_url = "/api/download/" \o thr[t].job]
    /\ UNCHANGED <<processing_status, uploads, OPENAI_API_KEY, planVars, parseVars, anVars>>
OfferDownload(t) ==
    /\ thr[t].pc = "status_url"
    /\ thr' = [thr EXCEPT ![t].pc = "return", ![t].code = 200, ![t].body = "status",
                          ![t].download_url =
                              IF processing_status[thr[t].job].status = "completed"
                              THEN "/api/download/" \o thr[t].job ELSE "None"]
    /\ UNCHANGED <<processing_status, uploads, OPENAI_API_KEY, planVars, parseVars, anVars>>

\* download_file, lines 181-200, taken at its read of the status; the
\* file at output_path was written by
\* generate_playbook_excel before line 139 set the path, and nothing
\* removes it
download_file(t, j) ==
    /\ thr[t].pc = "idle"
    /\ thr' = [thr EXCEPT ![t] =
          IF ~processing_status[j].present THEN Response("download", 404, "Job not found")
          ELSE IF processing_status[j].status # "completed"
          THEN [Response("download", 400, "Playbook not ready") EXCEPT !.job = j]
          ELSE IF processing_status[j].output_path = "None"
          THEN [Response("download", 404, "Output file not found") EXCEPT !.job = j]
          ELSE [Response("download", 200, "file") EXCEPT !.job = j]]
    /\ UNCHANGED <<processing_status, uploads, OPENAI_API_KEY, planVars, parseVars, anVars>>

\* Spec: uploads and executions of two jobs; the uploads are one file
\* name and two documents, of one and of several chunks
PairRequests ==
    {[has_file |-> TRUE, filename |-> <<97, 46, 80, 68, 70>>]}  \* "a.PDF"

PairDocuments ==
    {[readable |-> TRUE, pages |-> <<500>>],
     [readable |-> TRUE, pages |-> <<MaxPairChunks * chunk_size>>]}

Next ==
    \/ \E t \in Threads : upload_file(t, Jobs, PairRequests, PairDocuments)
    \/ \E t \in Threads : process_file(t)
    \/ \E t \in Threads : Return(t)

\* SpecServe: the requests of all four routes on one job, the uploads
\* getting the job id of ServeJobs
ServeJobs == {"j1"}

NextServe ==
    \/ \E t \in Threads : upload_file(t, ServeJobs, UploadRequests, Documents)
    \/ \E t \in Threads : process_file(t)
    \/ \E t \in Threads, j \in Jobs : get_status(t, j)
    \/ \E t \in Threads : ReadError(t)
    \/ \E t \in Threads : OfferDownload(t)
    \/ \E t \in Threads, j \in Jobs : download_file(t, j)
    \/ \E t \in Threads : Return(t)

\* a request thread that is inside process_file keeps running: each call
\* it waits for returns or raises
Fairness == \A t \in Threads : WF_vars(Proceed(t))

---------------------------------------------------------------------------
(* The specifications *)

NextPlan == Plan
NextParse == Decode

InitPlan == PlanInit /\ ParseIdle /\ AnalyzeIdle /\ JobIdle
InitParse == PlanIdle /\ ParseInit /\ AnalyzeIdle /\ JobIdle
InitAnalyze == PlanIdle /\ ParseIdle /\ AnalyzeInit /\ JobIdle
InitMerge == PlanIdle /\ ParseIdle /\ MergeInit /\ JobIdle
NextMerge == Combine

SpecPlan == InitPlan /\ [][NextPlan]_vars
SpecParse == InitParse /\ [][NextParse]_vars
SpecAnalyze == InitAnalyze /\ [][NextAnalyze]_vars
SpecMerge == InitMerge /\ [][NextMerge]_vars

Init == PlanIdle /\ ParseIdle /\ AnalyzeIdle /\ JobInit
Spec == Init /\ [][Next]_vars
SpecServe == Init /\ [][NextServe]_vars /\ Fairness

---------------------------------------------------------------------------
(* Properties *)

CeilDiv(a, b) == (a + b - 1) \div b

\* the concatenation of a sequence of sequences
RECURSIVE Flatten(_)
Flatten(ss) == IF ss = <<>> THEN <<>> ELSE Head(ss) \o Flatten(Tail(ss))

NonDecreasing(s) == \A i \in 1..(Len(s) - 1) : s[i] <= s[i + 1]

\* analyze_contract_chunked took the chunked path
Chunked == ~(text_len < a_size)

\* the clause lists and the definition lists of the replies received, a
\* reply without the key counting as an empty list
ReplyClauses ==
    [i \in 1..Len(a_replies) |->
        IF a_replies[i].ok /\ "clauses" \in a_replies[i].reply.keys
        THEN a_replies[i].reply.clauses ELSE <<>>]
ReplyDefinitions ==
    [i \in 1..Len(a_replies) |->
        IF a_replies[i].ok /\ "definitions" \in a_replies[i].reply.keys
        THEN a_replies[i].reply.definitions ELSE <<>>]

\* the percents one call of analyze_contract_chunked passes to its
\* progress_callback never decrease, and the last one of a call that
\* returns is 100
CallbackPercentsNonDecreasing ==
    /\ NonDecreasing(a_emitted)
    /\ a_pc = "returned" => a_emitted[Len(a_emitted)] = 100

\* C1: over the lifetime of a job the progress written to its status
\* entry never decreases
C1_ProgressNeverDecreases ==
    [][\A j \in Jobs :
          processing_status[j].present =>
              processing_status'[j].progress >= processing_status[j].progress]_vars

\* C2: a job's progress is 100 only when its status is completed; a job
\* that is processing or in error never shows 100
C2_HundredOnlyWhenCompleted ==
    \A j \in Jobs :
        (processing_status[j].present /\ processing_status[j].progress = 100)
            => processing_status[j].status = "completed"

\* C3: the planner's segments are an ordered partition of the text: the
\* whole text alone when it is shorter than the chunk size, otherwise
\* ceil(L/S) segments, none empty, none longer than S, whose concatenation
\* is the text
C3_ChunkPlannerPartition ==
    p_pc = "done" =>
        LET L == Len(contract_text)
            S == p_size
        IN  /\ Flatten(p_segments) = contract_text
            /\ IF L < S
               THEN p_segments = <<contract_text>>
               ELSE /\ Len(p_segments) = CeilDiv(L, S)
                    /\ \A k \in 1..Len(p_segments) :
                          Len(p_segments[k]) >= 1 /\ Len(p_segments[k]) <= S

\* a text that does not divide into whole chunks has been planned
C3_Witness ==
    /\ p_pc = "done"
    /\ Len(contract_text) > p_size
    /\ Len(contract_text) % p_size # 0
    /\ Len(p_segments) >= 2
    /\ Len(p_segments[Len(p_segments)]) < p_size

\* C4: a call of analyze_contract_chunked in which no analysis call fails
\* makes 1 analysis call for a text shorter than the chunk size and
\* ceil(L/S) calls otherwise, one per planned segment; at a chunk size of
\* 40,000 the planner yields 2 segments for 45,000 characters and 1 for 500
C4_NumberOfAnalysisCalls ==
    /\ a_pc = "returned" =>
          /\ Len(a_calls) = IF text_len < a_size THEN 1 ELSE CeilDiv(text_len, a_size)
          /\ Len(a_calls) = Len(SegmentRanges(text_len, a_size))
    /\ Len(SegmentRanges(45000, 40000)) = 2
    /\ Len(SegmentRanges(500, 40000)) = 1

\* a document one character longer than the chunk size has been analysed
\* in 2 calls, none of which failed
C4_Witness ==
    /\ a_pc = "returned"
    /\ text_len = chunk_size + 1
    /\ Len(a_calls) = 2
    /\ \A i \in 1..Len(a_replies) : a_replies[i].ok

\* C5: when the call for a chunk after the first fails, the call of
\* analyze_contract_chunked still returns a Playbook, and the clauses and
\* definitions collected from the earlier chunks are in it
C5_EarlierChunksSurviveFailure ==
    (/\ a_pc \in {"returned", "raised"}
     /\ Chunked
     /\ \E k \in 2..Len(a_replies) : ~a_replies[k].ok)
        => /\ a_pc = "returned"
           /\ Len(a_result.clauses) >= Len(all_clauses)
           /\ SubSeq(a_result.clauses, 1, Len(all_clauses)) = all_clauses
           /\ \A i \in 1..Len(all_definitions) :
                 \E k \in 1..Len(a_result.definitions) :
                     TermKey(a_result.definitions[k]) = TermKey(all_definitions[i])

\* C6: no call is made again: the calls made are for different parts of
\* the text, at most one is unanswered, and a call that raised is the last
\* one made and leaves analyze_contract_chunked raising
C6_NoRetryAndFailurePropagates ==
    /\ \A i, k \in 1..Len(a_calls) : i < k => a_calls[i].lo < a_calls[k].lo
    /\ Len(a_replies) <= Len(a_calls) /\ Len(a_calls) <= Len(a_replies) + 1
    /\ \A i \in 1..Len(a_replies) :
          ~a_replies[i].ok =>
              /\ i = Len(a_replies) /\ i = Len(a_calls)
              /\ a_pc = "raised"

\* the call for the second chunk has raised
C6_Witness ==
    /\ a_pc = "raised"
    /\ Len(a_calls) = 2
    /\ a_replies[1].ok /\ ~a_replies[2].ok

\* the span from the first "{" to the last "}" of a reply parses as JSON
FirstToLastBraceParses(s) ==
    \E i, k \in 1..Len(s) :
        /\ i < k
        /\ s[i] = "{" /\ \A m \in 1..(i - 1) : s[m] # "{"
        /\ s[k] = "}" /\ \A m \in (k + 1)..Len(s) : s[m] # "}"
        /\ IsJSON(SubSeq(s, i, k))

\* C7: analyze_contract returns a result exactly when the reply is valid
\* JSON or the span from its first "{" to its last "}" parses as JSON, and
\* raises an error and returns nothing otherwise
C7_ReturnsOnlyParseableJSON ==
    r_pc = "done" =>
        IF IsJSON(result_text) \/ FirstToLastBraceParses(result_text)
        THEN r_out.kind = "returned" /\ IsJSON(r_out.parsed)
        ELSE r_out.kind = "raised" /\ r_out.parsed = <<>> /\ r_out.error # ""

\* a reply that is no JSON but holds a JSON object between its first "{"
\* and last "}" has been decoded
C7_Witness ==
    /\ r_pc = "done"
    /\ ~IsJSON(result_text)
    /\ Len(result_text) >= 1 /\ result_text[1] = "x"
    /\ r_out.kind = "returned"
    /\ r_out.type = "dict"

\* the entries of defs that are the first with their lower-cased term
FirstOccurrences(defs) ==
    LET key(d) == IF d.has_term THEN lower(d.term) ELSE <<>>
        first == {i \in 1..Len(defs) : \A k \in 1..(i - 1) : key(defs[k]) # key(defs[i])}
        nth(n) == CHOOSE i \in first : Cardinality({k \in first : k <= i}) = n
    IN  [n \in 1..Cardinality(first) |-> defs[nth(n)]]

\* C8: the merged definitions are the concatenation of the chunks'
\* definitions reduced to the first entry of each lower-cased term, in the
\* order and the casing of the concatenation
C8_DefinitionsFirstOccurrenceWins ==
    (a_pc = "returned" /\ Chunked) =>
        a_result.definitions = FirstOccurrences(Flatten(ReplyDefinitions))

\* Fee, fee and Term, FEE have been merged to Fee, Term
C8_Witness ==
    /\ a_pc = "returned" /\ Chunked
    /\ Len(a_replies) = 2
    /\ Len(Flatten(ReplyDefinitions)) = 4
    /\ Len(a_result.definitions) = 2
    /\ a_result.definitions[1].term = <<70, 101, 101>>  \* "Fee"
    /\ a_result.definitions[2].term = <<84, 101, 114, 109>>  \* "Term"

\* C9: the definition terms of the Playbook that analyze_contract_chunked
\* returns are pairwise distinct when lower-cased, on either path
C9_DefinitionTermsDistinct ==
    a_pc = "returned" =>
        \A i, k \in 1..Len(a_result.definitions) :
            i # k => TermKey(a_result.definitions[i]) # TermKey(a_result.definitions[k])

\* C10: the merged clause list is the concatenation of the chunks' clause
\* lists in chunk order
C10_ClausesConcatenateInChunkOrder ==
    (a_pc = "returned" /\ Chunked) =>
        a_result.clauses = Flatten(ReplyClauses)

\* two chunks that both returned clauses have been merged
C10_Witness ==
    /\ a_pc = "returned" /\ Chunked
    /\ Len(a_replies) = 2
    /\ Len(ReplyClauses[1]) >= 1 /\ Len(ReplyClauses[2]) >= 1
    /\ ReplyClauses[1] # ReplyClauses[2]
    /\ Len(a_result.clauses) = Len(ReplyClauses[1]) + Len(ReplyClauses[2])

\* the replies that hold a non-empty summary, by position
SummaryChunks ==
    {k \in 1..Len(a_replies) :
        /\ a_replies[k].ok
        /\ "agreement_summary" \in a_replies[k].reply.keys
        /\ a_replies[k].reply.agreement_summary.py = "dict"
        /\ a_replies[k].reply.agreement_summary.size > 0}

\* C11 as stated: in a multi-chunk analysis the Playbook's summary is the
\* summary returned for the first chunk, and the summary of a later chunk
\* never appears in the Playbook
C11_FirstChunkSummaryAdopted ==
    (a_pc = "returned" /\ Chunked) =>
        /\ "agreement_summary" \in a_replies[1].reply.keys
              => a_result.agreement_summary = a_replies[1].reply.agreement_summary
        /\ \A k \in 2..Len(a_replies) :
              ("agreement_summary" \in a_replies[k].reply.keys
               /\ ~("agreement_summary" \in a_replies[1].reply.keys
                    /\ a_replies[1].reply.agreement_summary
                          = a_replies[k].reply.agreement_summary))
                  => a_result.agreement_summary # a_replies[k].reply.agreement_summary

\* C11 amended: in a multi-chunk analysis the Playbook's summary is the
\* first non-empty summary returned, in chunk order, adopted verbatim (the
\* first chunk's whenever that one is non-empty); the summaries of the
\* chunks after it are discarded; when no chunk returned a non-empty
\* summary the Playbook carries the placeholder summary
C11_FirstNonEmptySummaryAdopted ==
    (a_pc = "returned" /\ Chunked) =>
        IF SummaryChunks = {}
        THEN a_result.agreement_summary.title = "Contract Analysis"
        ELSE LET first == CHOOSE k \in SummaryChunks : \A m \in SummaryChunks : k <= m
             IN  a_result.agreement_summary = a_replies[first].reply.agreement_summary

\* two chunks returned different non-empty summaries and the Playbook
\* carries the first chunk's
C11_Witness ==
    /\ a_pc = "returned" /\ Chunked
    /\ SummaryChunks = {1, 2}
    /\ a_replies[1].reply.agreement_summary # a_replies[2].reply.agreement_summary
    /\ a_result.agreement_summary = a_replies[1].reply.agreement_summary

\* the merged clauses of a risk class, in encounter order
IsRed(c) == lower(c.risk_level) = <<114, 101, 100>>  \* "red"
IsYellow(c) == lower(c.risk_level) = <<121, 101, 108, 108, 111, 119>>  \* "yellow"
Reds == SelectSeq(all_clauses, IsRed)
Yellows == SelectSeq(all_clauses, IsYellow)
Others == SelectSeq(all_clauses, LAMBDA c : ~IsRed(c) /\ ~IsYellow(c))

\* the first cap entries of a class as the quick reference lists them
Published(class, cap) ==
    [i \in 1..(IF Len(class) < cap THEN Len(class) ELSE cap) |->
        IF class[i].section_reference # ""
        THEN class[i].clause_title \o " (Section " \o class[i].section_reference \o ")"
        ELSE class[i].clause_title]

\* C12: the quick reference lists the Red clauses under deal_breakers, the
\* Yellow ones under high_priority_items and the others under
\* standard_acceptable_terms, each clause in one list, each list in
\* encounter order and cut to its first 15 entries; risk levels Red, Green,
\* Yellow, Red give lists of 2, 1 and 1 entries
C12_QuickReferenceBuckets ==
    a_pc = "returned" =>
        LET qr == a_result.quick_reference
        IN  /\ qr.deal_breakers = Published(Reds, 15)
            /\ qr.high_priority_items = Published(Yellows, 15)
            /\ qr.standard_acceptable_terms = Published(Others, 15)
            /\ (Len(Reds) <= 15 /\ Len(Yellows) <= 15 /\ Len(Others) <= 15)
                  => Len(qr.deal_breakers) + Len(qr.high_priority_items)
                        + Len(qr.standard_acceptable_terms) = Len(all_clauses)
            /\ [i \in 1..Len(all_clauses) |-> all_clauses[i].risk_level]
                    = <<Red, Green, Yellow, Red>>
                  => /\ Len(qr.deal_breakers) = 2
                     /\ Len(qr.high_priority_items) = 1
                     /\ Len(qr.standard_acceptable_terms) = 1

\* more than 15 Red clauses of two kinds were merged among Yellow and Green
\* ones, and deal_breakers lists 15
C12_Witness ==
    /\ a_pc = "returned"
    /\ Len(Reds) > 15 /\ Len(Yellows) >= 1 /\ Len(Others) >= 1
    /\ \E i, k \in 1..15 : Reds[i].clause_title # Reds[k].clause_title
    /\ Len(a_result.quick_reference.deal_breakers) = 15

\* C13: recommended_order_of_negotiation is the first 10 titles of the
\* merged clauses ordered Red, then Yellow, then the rest, the clauses of
\* one rank in their order in the merged list
C13_RecommendedOrderStableSort ==
    a_pc = "returned" =>
        LET ranked == Reds \o Yellows \o Others
            ro == a_result.quick_reference.recommended_order_of_negotiation
        IN  /\ Len(ro) = IF Len(ranked) < 10 THEN Len(ranked) ELSE 10
            /\ \A i \in 1..Len(ro) : ro[i] = ranked[i].clause_title

\* more than 10 clauses were merged, a Green one ahead of Red ones of two
\* kinds, and the recommended order holds 10 titles
C13_Witness ==
    /\ a_pc = "returned"
    /\ Len(all_clauses) > 10
    /\ ~IsRed(all_clauses[1]) /\ ~IsYellow(all_clauses[1])
    /\ \E i, k \in 1..Len(Reds) : Reds[i].clause_title # Reds[k].clause_title
    /\ Len(Yellows) >= 1
    /\ Len(a_result.quick_reference.recommended_order_of_negotiation) = 10

\* C14: when no reply held a clause, the Playbook analyze_contract_chunked
\* returns still has its summary, clause list, definition list, quick
\* reference and negotiation strategy, none of them null, the clause list
\* and the three buckets empty
C14_WellFormedWithoutClauses ==
    (a_pc = "returned" /\ \A i \in 1..Len(ReplyClauses) : ReplyClauses[i] = <<>>)
        => /\ a_result.keys = {"agreement_summary", "clauses", "definitions",
                               "quick_reference", "negotiation_strategy"}
           /\ a_result.agreement_summary.py = "dict"
           /\ a_result.negotiation_strategy.py = "dict"
           /\ a_result.clauses = <<>>
           /\ a_result.quick_reference.deal_breakers = <<>>
           /\ a_result.quick_reference.high_priority_items = <<>>
           /\ a_result.quick_reference.standard_acceptable_terms = <<>>

\* a thread is executing the pipeline of process_file
Running(t) == thr[t].route = "process" /\ thr[t].pc \notin {"idle", "return"}

\* C15: at any time at most one execution of process_file is running for
\* a job id
C15_SingleWriterPerJob ==
    \A t1, t2 \in Threads :
        (t1 # t2 /\ Running(t1) /\ Running(t2)) => thr[t1].job # thr[t2].job

\* C16: a step taken for job j, a submission, a step of its execution or
\* its failure, leaves the entry and the file of every other job as they
\* were
C16_OtherJobsUnchanged ==
    [][\A t \in Threads :
          thr'[t] # thr[t] =>
              LET j == IF thr[t].pc = "idle" THEN thr'[t].job ELSE thr[t].job
              IN  \A k \in Jobs \ {j} :
                      /\ processing_status'[k] = processing_status[k]
                      /\ uploads'[k] = uploads[k]]_vars

\* one job has failed while the execution of another job is under way, the
\* entry of each showing its own state
C16_Witness ==
    \E t \in Threads, j, k \in Jobs :
        /\ j # k
        /\ processing_status[j].status = "error"
        /\ Running(t) /\ thr[t].job = k
        /\ processing_status[k].status = "processing"
        /\ processing_status[k].progress > 20
        /\ processing_status[k].error = "None"

\* C17: a failure raised in process_file by the extraction, the analysis
\* or the rendering is handled by the except clause, and an execution
\* answers only at the end of the success path or of the except clause:
\* the clause sets the job's status to error, then its error and its
\* message from the failure, and answers with an error payload
C17_FailuresAreCaught ==
    [][\A t \in Threads :
          LET j == thr[t].job
          IN  /\ (thr'[t].pc = "except" /\ thr[t].pc # "except")
                    => /\ thr[t].pc \in {"parsing", "reading", "single", "wait", "combined",
                                          "render"}
                       /\ thr'[t].e # ""
                       /\ thr'[t].job = j
              /\ (thr[t].route = "process" /\ thr'[t].pc = "return"
                     /\ thr[t].pc \notin {"idle", "return"})
                    => thr[t].pc \in {"cleanup", "except_message"}
              /\ (thr[t].pc = "except" /\ thr'[t] # thr[t])
                    => /\ processing_status'[j].status = "error"
                       /\ thr'[t] = [thr[t] EXCEPT !.pc = "except_error"]
              /\ (thr[t].pc = "except_error" /\ thr'[t] # thr[t])
                    => /\ processing_status'[j].error = thr[t].e
                       /\ thr'[t] = [thr[t] EXCEPT !.pc = "except_message"]
              /\ (thr[t].pc = "except_message" /\ thr'[t] # thr[t])
                    => /\ processing_status'[j].message = "Error: " \o thr[t].e
                       /\ thr'[t].pc = "return"
                       /\ thr'[t].code = 500
                       /\ thr'[t].body = "error"
                       /\ thr'[t].e = thr[t].e]_vars

\* a rendering failure has been answered with the error payload and the
\* job is in error with the failure's text
C17_Witness ==
    \E t \in Threads :
        /\ thr[t].pc = "return" /\ thr[t].code = 500
        /\ thr[t].e = "generate_playbook_excel raised"
        /\ processing_status[thr[t].job].status = "error"
        /\ processing_status[thr[t].job].error = "generate_playbook_excel raised"

\* C18: every job entry has a status of processing, completed or error
\* and a progress from 0 to 100, and a job enters the table with status
\* processing and progress 0
C18_StatusAndProgressRange ==
    [][\A j \in Jobs :
          processing_status'[j].present =>
              /\ processing_status'[j].status \in {"processing", "completed", "error"}
              /\ processing_status'[j].progress \in 0..100
              /\ ~processing_status[j].present
                    => /\ processing_status'[j].status = "processing"
                       /\ processing_status'[j].progress = 0]_vars

\* one job has reached progress 100 and another has just been submitted
C18_Witness ==
    \E j, k \in Jobs :
        /\ processing_status[j].present /\ processing_status[j].progress = 100
        /\ processing_status[k].present /\ processing_status[k].progress = 0
        /\ processing_status[k].status = "processing"

\* the uploaded file was read and no page of it holds text
NoText(j) ==
    /\ uploads[j].readable
    /\ \A i \in 1..Len(uploads[j].pages) : uploads[j].pages[i] = 0

\* C19: for a job whose file is read but holds no text, no analysis call
\* is made and nothing is rendered, the job is never completed, and an
\* execution of it ends with the job in error
C19_NoTextEndsInError ==
    \A j \in Jobs :
        (processing_status[j].present /\ NoText(j)) =>
            /\ \A t \in Threads :
                  (Running(t) /\ thr[t].job = j)
                      => thr[t].pc \in {"parse", "parsing", "reading", "analyze", "plan",
                                        "except", "except_error", "except_message"}
            /\ processing_status[j].status # "completed"
            /\ \A t \in Threads :
                  (thr[t].pc = "return" /\ thr[t].route = "process" /\ thr[t].job = j)
                      => processing_status[j].status = "error"

\* the filename ends in a dot and an allowed extension, in any case
HasAllowedExtension(filename) ==
    \E ext \in {<<112, 100, 102>>, <<100, 111, 99, 120>>, <<120, 108, 115, 120>>} :  \* "pdf", "docx", "xlsx"
        /\ Len(filename) > Len(ext)
        /\ filename[Len(filename) - Len(ext)] = 46
        /\ lower(SubSeq(filename, Len(filename) - Len(ext) + 1, Len(filename))) = ext

\* C20: an upload with no file, with an empty filename, with an extension
\* outside pdf, docx, xlsx in any case, or made while no API key is
\* configured leaves the job table and the stored files as they were and
\* is answered without a job id; any other upload goes on to save its
\* file, and an entry is made only by an upload that passed these checks
C20_RejectedUploadCreatesNoJob ==
    [][/\ \A t \in Threads :
            (thr[t].pc = "idle" /\ thr'[t].route = "upload") =>
                IF \/ ~thr'[t].has_file
                   \/ thr'[t].filename = <<>>
                   \/ ~HasAllowedExtension(thr'[t].filename)
                   \/ ~OPENAI_API_KEY
                THEN /\ processing_status' = processing_status
                     /\ uploads' = uploads
                     /\ thr'[t].pc = "return"
                     /\ thr'[t].job = ""
                     /\ thr'[t].code \in {400, 500}
                ELSE /\ thr'[t].pc = "save"
                     /\ thr'[t].job \in Jobs
                     /\ ~processing_status[thr'[t].job].present
       /\ \A j \in Jobs :
            (processing_status'[j].present /\ ~processing_status[j].present) =>
                \E t \in Threads :
                    /\ thr[t].pc = "entry" /\ thr[t].job = j
                    /\ HasAllowedExtension(thr[t].filename)
                    /\ OPENAI_API_KEY
                    /\ thr'[t].pc = "return" /\ thr'[t].code = 200
                    /\ thr'[t].job = j]_vars

\* an upload of a file with another extension has been refused while the
\* table holds a job
C20_Witness ==
    \E t \in Threads :
        /\ thr[t].pc = "return" /\ thr[t].route = "upload"
        /\ thr[t].filename = <<97, 46, 101, 120, 101>>  \* "a.exe"
        /\ thr[t].code = 400 /\ thr[t].job = ""
        /\ \E j \in Jobs : processing_status[j].present

\* C21: a request thread that has started the pipeline of a job reaches
\* the response of process_file, and at that point the job's status is
\* completed or error, provided every step the thread waits for returns
\* or raises
C21_ExecutionEndsTerminal ==
    \A t \in Threads, j \in Jobs :
        (thr[t].pc = "parse" /\ thr[t].job = j)
            ~> (/\ thr[t].pc = "return" /\ thr[t].route = "process" /\ thr[t].job = j
                /\ processing_status[j].status \in {"completed", "error"})

\* a pipeline run has answered "completed" and the job is completed
C21_Witness ==
    \E t \in Threads :
        /\ thr[t].pc = "return" /\ thr[t].route = "process"
        /\ thr[t].body = "completed"
        /\ processing_status[thr[t].job].status = "completed"

\* C22: in every execution of the pipeline the call for the next chunk
\* starts only while no call of the execution is pending and exactly the
\* calls for the chunks before it have returned, the count of returned
\* calls grows by one per return, merging starts only when the calls for
\* all chunks have returned, and rendering starts only from the return of
\* the single call or of the merge
C22_PipelineSequential ==
    [][\A t \in Threads :
          /\ (thr'[t].pc = "wait" /\ thr[t].pc # "wait") =>
                 /\ thr[t].pc = "loop"
                 /\ thr[t].idx < thr[t].n
                 /\ thr'[t].idx = thr[t].idx
          /\ (thr'[t].idx # thr[t].idx) =>
                 \/ thr[t].pc = "wait" /\ thr'[t].pc = "loop"
                       /\ thr'[t].idx = thr[t].idx + 1
                 \/ thr'[t].idx = 0
          /\ (thr'[t].pc = "combined" /\ thr[t].pc # "combined") =>
                 /\ thr[t].pc = "loop"
                 /\ thr[t].idx = thr[t].n
          /\ (thr'[t].pc = "render" /\ thr[t].pc # "render") =>
                 thr[t].pc \in {"single", "combined"}]_vars

\* the call for the second chunk of two is running while the other thread
\* renders the same job
C22_Witness ==
    \E t, u \in Threads :
        /\ thr[t].pc = "wait" /\ thr[t].idx = 1 /\ thr[t].n = 2
        /\ thr[u].pc = "render" /\ thr[u].job = thr[t].job

\* C23: in the chunked flow the k-th per-chunk update is emitted only
\* after the call for chunk k has returned: while the loop runs, the
\* updates emitted are no more than the calls that have returned
C23_UpdateAfterChunkReturns ==
    (Chunked /\ a_pc \in {"loop", "wait", "raised"}) =>
        Len(a_emitted) <= Len(a_replies)

\* C24: a status read answers with a download reference exactly when the
\* status of the job's entry is completed as it reads it for the
\* reference, the reference is the job's download route, and a status
\* read of an unknown id carries none; a download request is answered
\* with the file only when the job is known and the status it reads is
\* completed
C24_DownloadOnlyWhenCompleted ==
    [][\A t \in Threads :
          /\ (thr[t].pc = "status_url" /\ thr'[t] # thr[t]) =>
                 /\ thr'[t].pc = "return" /\ thr'[t].code = 200
                 /\ thr'[t].job = thr[t].job
                 /\ processing_status[thr[t].job].present
                 /\ (thr'[t].download_url # "None")
                        <=> (processing_status[thr[t].job].status = "completed")
                 /\ thr'[t].download_url \in {"None", "/api/download/" \o thr[t].job}
          /\ (thr[t].pc = "idle" /\ thr'[t].route = "status" /\ thr'[t].pc = "return") =>
                 /\ thr'[t].code = 404
                 /\ thr'[t].download_url = "None"
          /\ (thr[t].pc = "idle" /\ thr'[t].route = "download" /\ thr'[t].code = 200) =>
                 /\ thr'[t].job \in Jobs
                 /\ processing_status[thr'[t].job].present
                 /\ processing_status[thr'[t].job].status = "completed"]_vars

\* a status read has offered the download of a completed job and a
\* download request has been answered with its file
C24_Witness ==
    \E t, u \in Threads :
        /\ thr[t].pc = "return" /\ thr[t].route = "status"
        /\ thr[t].download_url = "/api/download/j1"
        /\ thr[u].pc = "return" /\ thr[u].route = "download" /\ thr[u].code = 200

\* C25: once a job's status is completed or error, no step changes its
\* status, progress, error or output path, and a process request for it
\* is answered without running the pipeline
C25_TerminalAbsorbing ==
    [][\A j \in Jobs :
          (processing_status[j].present
             /\ processing_status[j].status \in {"completed", "error"}) =>
              /\ processing_status'[j].status = processing_status[j].status
              /\ processing_status'[j].progress = processing_status[j].progress
              /\ processing_status'[j].error = processing_status[j].error
              /\ processing_status'[j].output_path = processing_status[j].output_path
              /\ \A t \in Threads :
                    (thr[t].pc = "idle" /\ thr'[t].route = "process" /\ thr'[t].job = j)
                        => thr'[t].pc = "return"]_vars

\* C26: the Playbook the chunked path returns for a text of exactly one
\* chunk is the model's reply for that chunk, which is what the
\* single-call path returns for the same reply
C26_OneChunkMergeIsIdentity ==
    (a_pc = "returned" /\ Chunked /\ Len(chunks) = 1) =>
        a_result = a_replies[1].reply

\* C27: every text handed to analyze_contract is at most max_chars long
\* and is sent to the model as it is, not truncated; the texts sent are
\* consecutive parts of the extracted text starting at its beginning,
\* and once analyze_contract_chunked has returned they make up the whole
\* text
C27_NoTextDropped ==
    /\ \A i \in 1..Len(a_calls) :
          /\ a_calls[i].hi - a_calls[i].lo <= max_chars
          /\ ~a_calls[i].truncated
          /\ a_calls[i].sent = a_calls[i].hi - a_calls[i].lo
          /\ a_calls[i].lo = IF i = 1 THEN 0 ELSE a_calls[i - 1].hi
    /\ a_pc = "returned" =>
          /\ Len(a_calls) >= 1
          /\ a_calls[Len(a_calls)].hi = text_len

\* the longest document has been analysed in full chunks, each sent whole
C27_Witness ==
    /\ a_pc = "returned"
    /\ text_len = MaxChunks * chunk_size
    /\ Len(a_calls) = MaxChunks
    /\ \A i \in 1..Len(a_calls) : a_calls[i].sent = chunk_size

====
